---------------------------- MODULE Spec2Model ----------------------------
(***************************************************************************)
(* A model of the career recommender's scoring and analytics engine:       *)
(* CareerMatcher, SkillsGapAnalyzer, CareerComparison and CareerSimulation *)
(* (src/recommender).  Every component is constructed once (Init loads its *)
(* reference tables) and then answers calls; an action is one call, with   *)
(* its arguments drawn from bounded sets and its result stored in ret.     *)
(*                                                                         *)
(* Python floats are IEEE-754 binary64.  The model computes them exactly:  *)
(* a float is a 53-bit integer mantissa times a power of two, held in      *)
(* arbitrary-precision naturals, and every /, * and + rounds to nearest,   *)
(* ties to even, as the interpreter does.                                  *)
(***************************************************************************)
EXTENDS Integers, Sequences, FiniteSets, TLC

(***************************************************************************)
(* Arbitrary-precision naturals: little-endian sequences of limbs in       *)
(* 0..LimbBase-1 without leading zero limbs; <<>> is zero.                 *)
(***************************************************************************)
LimbBits == 5 * 3
LimbBase == 2 ^ LimbBits

\* a without its leading zero limbs
BigNorm(a) ==
    IF \A i \in DOMAIN a : a[i] = 0 THEN <<>>
    ELSE SubSeq(a, 1, CHOOSE i \in DOMAIN a :
                          a[i] # 0 /\ \A j \in (i + 1)..Len(a) : a[j] = 0)

RECURSIVE BigFromNat(_)
BigFromNat(n) ==
    IF n = 0 THEN <<>> ELSE <<n % LimbBase>> \o BigFromNat(n \div LimbBase)

RECURSIVE BigToNat(_)
BigToNat(a) ==
    IF a = <<>> THEN 0 ELSE Head(a) + LimbBase * BigToNat(Tail(a))

\* The operations on limbs halve their operand, so that the depth of the
\* recursion is the logarithm of the number of limbs.

\* limb i of a, 0 beyond its length
Limb(a, i) == IF i <= Len(a) THEN a[i] ELSE 0

\* the limbs first..last of a + b + c and the carry out of them
\* one limb and the carry of a total below LimbBase^2
LimbOf(total) == [limbs |-> <<total % LimbBase>>, carry |-> total \div LimbBase]

\* the limbs of the lower half followed by those of the upper half
AfterLimbs(limbs, high) == [limbs |-> limbs \o high.limbs, carry |-> high.carry]

RECURSIVE BigAddRange(_, _, _, _, _)
BigAddUpper(a, b, first, last, low) ==
    AfterLimbs(low.limbs, BigAddRange(a, b, first, last, low.carry))

BigAddRange(a, b, first, last, c) ==
    IF first = last
    THEN LimbOf(Limb(a, first) + Limb(b, first) + c)
    ELSE BigAddUpper(a, b, (first + last) \div 2 + 1, last,
                     BigAddRange(a, b, first, (first + last) \div 2, c))

WithCarry(sum) == IF sum.carry = 0 THEN sum.limbs ELSE sum.limbs \o <<sum.carry>>

BigAddC(a, b, c) ==
    IF a = <<>> /\ b = <<>>
    THEN IF c = 0 THEN <<>> ELSE <<c>>
    ELSE WithCarry(BigAddRange(a, b, 1, IF Len(a) >= Len(b) THEN Len(a) ELSE Len(b), c))

BigAdd(a, b) == BigAddC(a, b, 0)

\* the limbs first..last of a - b - c and the borrow out of them
\* one limb and the borrow of a difference above -LimbBase
LimbOfDifference(difference) ==
    [limbs |-> <<(difference + LimbBase) % LimbBase>>,
     carry |-> IF difference < 0 THEN 1 ELSE 0]

RECURSIVE BigSubRange(_, _, _, _, _)
BigSubUpper(a, b, first, last, low) ==
    AfterLimbs(low.limbs, BigSubRange(a, b, first, last, low.carry))

BigSubRange(a, b, first, last, c) ==
    IF first = last
    THEN LimbOfDifference(a[first] - Limb(b, first) - c)
    ELSE BigSubUpper(a, b, (first + last) \div 2 + 1, last,
                     BigSubRange(a, b, first, (first + last) \div 2, c))

\* a - b for a >= b
BigSubB(a, b, c) ==
    IF a = <<>> THEN <<>> ELSE BigSubRange(a, b, 1, Len(a), c).limbs

BigSub(a, b) == BigNorm(BigSubB(a, b, 0))

\* the limbs first..last of a * k + c and the carry out of them
RECURSIVE BigMulRange(_, _, _, _, _)
BigMulUpper(a, k, first, last, low) ==
    AfterLimbs(low.limbs, BigMulRange(a, k, first, last, low.carry))

BigMulRange(a, k, first, last, c) ==
    IF first = last
    THEN LimbOf(a[first] * k + c)
    ELSE BigMulUpper(a, k, (first + last) \div 2 + 1, last,
                     BigMulRange(a, k, first, (first + last) \div 2, c))

\* a * k + c for a small k, c < LimbBase
BigMulSmallC(a, k, c) ==
    IF a = <<>>
    THEN IF c = 0 THEN <<>> ELSE <<c>>
    ELSE WithCarry(BigMulRange(a, k, 1, Len(a), c))

BigMulSmall(a, k) == BigNorm(BigMulSmallC(a, k, 0))

RECURSIVE BigMul(_, _)
BigMul(a, b) ==
    IF a = <<>> \/ b = <<>> THEN <<>>
    ELSE BigNorm(BigAdd(BigMulSmall(a, Head(b)),
                        IF Tail(b) = <<>> THEN <<>>
                        ELSE <<0>> \o BigMul(a, Tail(b))))

\* the limbs last..first of the quotient of a by d, the highest limb first as
\* long division yields them, with the remainder r of the limbs above them,
\* and the remainder
LimbOfQuotient(total, d) == [q |-> <<total \div d>>, r |-> total % d]

AfterQuotient(limbs, low) == [q |-> limbs \o low.q, r |-> low.r]

RECURSIVE BigDivRange(_, _, _, _, _)
BigDivLower(a, d, first, last, high) ==
    AfterQuotient(high.q, BigDivRange(a, d, first, last, high.r))

BigDivRange(a, d, first, last, r) ==
    IF first = last
    THEN LimbOfQuotient(r * LimbBase + a[first], d)
    ELSE BigDivLower(a, d, first, (first + last) \div 2,
                     BigDivRange(a, d, (first + last) \div 2 + 1, last, r))

\* the limbs of the quotient from the lowest up
LowestFirst(x) == [q |-> [i \in 1..Len(x.q) |-> x.q[Len(x.q) + 1 - i]], r |-> x.r]

\* quotient and remainder of a by a small d, 0 < d < LimbBase
BigDivSmallR(a, d) ==
    IF a = <<>> THEN [q |-> <<>>, r |-> 0]
    ELSE LowestFirst(BigDivRange(a, d, 1, Len(a), 0))

NormalQuotient(x) == [q |-> BigNorm(x.q), r |-> x.r]

BigDivSmall(a, d) == NormalQuotient(BigDivSmallR(a, d))

Zeros(n) == [i \in 1..n |-> 0]

BigShl(a, k) ==
    IF a = <<>> THEN <<>>
    ELSE BigMulSmall(Zeros(k \div LimbBits) \o a, 2 ^ (k % LimbBits))

BigShr(a, k) ==
    LET w == k \div LimbBits
    IN  IF w >= Len(a) THEN <<>>
        ELSE BigDivSmall(SubSeq(a, w + 1, Len(a)), 2 ^ (k % LimbBits)).q

RECURSIVE NatBitLen(_)
NatBitLen(n) == IF n = 0 THEN 0 ELSE 1 + NatBitLen(n \div 2)

BigBitLen(a) ==
    IF a = <<>> THEN 0 ELSE LimbBits * (Len(a) - 1) + NatBitLen(a[Len(a)])

\* -1, 0, 1 as a < b, a = b, a > b for two numbers of i limbs
BigCmpEq(a, b, i) ==
    IF \A j \in 1..i : a[j] = b[j] THEN 0
    ELSE LET top == CHOOSE j \in 1..i : a[j] # b[j] /\ \A h \in (j + 1)..i : a[h] = b[h]
         IN  IF a[top] < b[top] THEN -1 ELSE 1

BigCmp(a, b) ==
    IF Len(a) < Len(b) THEN -1
    ELSE IF Len(a) > Len(b) THEN 1
    ELSE BigCmpEq(a, b, Len(a))

BigIsOdd(a) == a # <<>> /\ Head(a) % 2 = 1

(***************************************************************************)
(* Python floats (IEEE-754 binary64, non-negative and finite here): the    *)
(* value is m * 2^e with m = <<>> (zero) or 2^52 <= m < 2^53.              *)
(***************************************************************************)
MantBits == 52 + 1
GuardShift == 5 * LimbBits

FZero == [m |-> <<>>, e |-> 0]

\* whether q + r * 2^(-s), with the quotient q and a remainder r below 2^s,
\* rounds up to q + 1: to nearest, and a tie to the even one of q and q + 1
\* unless a fraction was dropped below r
RoundsUp(q, r, s, sticky) ==
    IF r = <<>> THEN FALSE
    ELSE IF BigCmp(r, BigShl(<<1>>, s - 1)) = 0 THEN sticky \/ BigIsOdd(q)
    ELSE BigCmp(r, BigShl(<<1>>, s - 1)) > 0

\* q + 1 when up, else q
RoundedUp(q, up) == IF up THEN BigAdd(q, <<1>>) ELSE q

\* the remainder of n by 2^s for the quotient q
RemainderOf(n, q, s) == BigSub(n, BigShl(q, s))

\* n // 2^s rounded to nearest for the quotient q of n by 2^s
NearestQuotient(n, q, s, sticky) == RoundedUp(q, RoundsUp(q, RemainderOf(n, q, s), s, sticky))

\* q * 2^e for q <= 2^MantBits: 2^MantBits itself is 2^(MantBits - 1) * 2
Renormalized(q, e) ==
    IF BigBitLen(q) > MantBits THEN [m |-> BigShr(q, 1), e |-> e + 1]
    ELSE [m |-> q, e |-> e]

\* n * 2^e for an n of L bits
FRoundBits(n, e, sticky, L) ==
    IF L <= MantBits
    THEN [m |-> BigShl(n, MantBits - L), e |-> e - (MantBits - L)]
    ELSE Renormalized(NearestQuotient(n, BigShr(n, L - MantBits), L - MantBits, sticky),
                      e + (L - MantBits))

\* n * 2^e (plus a non-zero fraction below n's last bit when sticky), rounded
\* to nearest with ties to even.
FRound(n, e, sticky) ==
    IF n = <<>> THEN FZero ELSE FRoundBits(n, e, sticky, BigBitLen(n))

\* float(n) for an int n >= 0
FFromNat(n) == FRound(BigFromNat(n), 0, FALSE)

\* n / d for ints n >= 0, 0 < d < LimbBase (true division, correctly rounded)
\* the quotient x.q * 2^e of a division with remainder x.r
FOfDivision(x, e) == FRound(x.q, e, x.r # 0)

FDivNat(n, d) ==
    FOfDivision(BigDivSmall(BigShl(BigFromNat(n), GuardShift), d), 0 - GuardShift)

FMul(a, b) ==
    IF a.m = <<>> \/ b.m = <<>> THEN FZero
    ELSE FRound(BigMul(a.m, b.m), a.e + b.e, FALSE)

\* a + b for the lesser e of their exponents
FSumAt(a, b, e) == FRound(BigAdd(BigShl(a.m, a.e - e), BigShl(b.m, b.e - e)), e, FALSE)

FAdd(a, b) ==
    IF a.m = <<>> THEN b
    ELSE IF b.m = <<>> THEN a
    ELSE FSumAt(a, b, IF a.e < b.e THEN a.e ELSE b.e)

\* -1, 0, 1 as a < b, a = b, a > b
FCmp(a, b) ==
    IF a.m = <<>> THEN (IF b.m = <<>> THEN 0 ELSE -1)
    ELSE IF b.m = <<>> THEN 1
    ELSE IF a.e # b.e THEN (IF a.e < b.e THEN -1 ELSE 1)
    ELSE BigCmp(a.m, b.m)

FOne == FFromNat(1)

FLt(a, b) == FCmp(a, b) < 0
FLe(a, b) == FCmp(a, b) <= 0

\* t * 2^(-s) rounded to the nearest integer, ties to even
NearestInteger(t, s) == NearestQuotient(t, BigShr(t, s), s, FALSE)

\* round(x, nd) as the integer round(x, nd) * 10^nd: x * 10^nd rounded to the
\* nearest integer, ties (of the exact binary value) to even.
FRoundDigits(x, nd) ==
    IF x.e >= 0 THEN BigToNat(BigShl(BigMul(x.m, BigFromNat(10 ^ nd)), x.e))
    ELSE BigToNat(NearestInteger(BigMul(x.m, BigFromNat(10 ^ nd)), 0 - x.e))


\* x / d for a float x and an int d, 0 < d < LimbBase
FDivSmall(x, d) ==
    IF x.m = <<>> THEN FZero
    ELSE FOfDivision(BigDivSmall(BigShl(x.m, GuardShift), d), x.e - GuardShift)

\* int(x): the integer part
FTrunc(x) ==
    IF x.m = <<>> THEN 0
    ELSE IF x.e >= 0 THEN BigToNat(BigShl(x.m, x.e))
    ELSE BigToNat(BigShr(x.m, 0 - x.e))

(***************************************************************************)
(* Python helpers                                                          *)
(***************************************************************************)
Range(s) == {s[i] : i \in DOMAIN s}
Max(a, b) == IF a >= b THEN a ELSE b
Min(a, b) == IF a <= b THEN a ELSE b

\* s[:n]
Take(s, n) == SubSeq(s, 1, Min(n, Len(s)))

\* Python str: a string is the sequence of its characters
UpperChars == "ABCDEFGHIJKLMNOPQRSTUVWXYZ"
LowerChars == "abcdefghijklmnopqrstuvwxyz"

\* the lower-case letter of each upper-case letter
LowerOf ==
    [c \in {SubSeq(UpperChars, i, i) : i \in 1..Len(UpperChars)} |->
        LET i == CHOOSE k \in 1..Len(UpperChars) : SubSeq(UpperChars, k, k) = c
        IN  SubSeq(LowerChars, i, i)]

CharLower(c) == IF c \in DOMAIN LowerOf THEN LowerOf[c] ELSE c

\* s.lower(): each character in lower case; the string is halved, so that
\* the depth of the recursion is the logarithm of its length
RECURSIVE StrLower(_)
StrLower(s) ==
    IF Len(s) <= 1 THEN CharLower(s)
    ELSE StrLower(SubSeq(s, 1, Len(s) \div 2))
         \o StrLower(SubSeq(s, Len(s) \div 2 + 1, Len(s)))

\* sub in s
StrContains(sub, s) ==
    \E i \in 1..(Len(s) - Len(sub) + 1) : SubSeq(s, i, i + Len(sub) - 1) = sub

\* s.find(sub) + 1: the first index at which sub stands in s, 0 if nowhere
FirstIndex(sub, s) ==
    IF StrContains(sub, s)
    THEN CHOOSE i \in 1..(Len(s) - Len(sub) + 1) :
             /\ SubSeq(s, i, i + Len(sub) - 1) = sub
             /\ \A j \in 1..(i - 1) : SubSeq(s, j, j + Len(sub) - 1) # sub
    ELSE 0

\* s.replace(old, new) for a non-empty old: the occurrences of old from the
\* left, none overlapping another
RECURSIVE StrReplace(_, _, _)
ReplacedFrom(s, old, new, i) ==
    IF i = 0 THEN s
    ELSE SubSeq(s, 1, i - 1) \o new \o StrReplace(SubSeq(s, i + Len(old), Len(s)), old, new)

StrReplace(s, old, new) == ReplacedFrom(s, old, new, FirstIndex(old, s))

\* s.split(sep) for a one-character sep
RECURSIVE StrSplit(_, _)
SplitFrom(s, sep, i) ==
    IF i = 0 THEN <<s>>
    ELSE <<SubSeq(s, 1, i - 1)>> \o StrSplit(SubSeq(s, i + 1, Len(s)), sep)

StrSplit(s, sep) == SplitFrom(s, sep, FirstIndex(sep, s))

Digits == "0123456789"
IsDigit(c) == \E i \in 1..Len(Digits) : SubSeq(Digits, i, i) = c
DigitValue(c) == (CHOOSE i \in 1..Len(Digits) : SubSeq(Digits, i, i) = c) - 1
AllDigits(s) == \A i \in 1..Len(s) : IsDigit(SubSeq(s, i, i))

\* the number a string of digits writes ("" is 0)
RECURSIVE DigitsToNat(_)
DigitsToNat(s) ==
    IF s = "" THEN 0
    ELSE 10 * DigitsToNat(SubSeq(s, 1, Len(s) - 1)) + DigitValue(SubSeq(s, Len(s), Len(s)))

\* a decimal literal <<n, d>> (n/d) as the float the interpreter reads
PyFloat(lit) == FDivNat(lit[1], lit[2])

\* sequences over S of length at most n, and those without a repeated element
SeqsUpTo(S, n) == UNION {[1..k -> S] : k \in 0..n}
DistinctSeqsUpTo(S, n) ==
    {q \in SeqsUpTo(S, n) : \A i, j \in DOMAIN q : i # j => q[i] # q[j]}

(***************************************************************************)
(* Bounds of the model                                                     *)
(***************************************************************************)
\* the length of the career table a matcher is constructed with
MaxCareers == 6
\* the number of distinct items of one dimension in a scored pair
MaxItems == 2

(***************************************************************************)
(* State: the four components' fields after construction, the last call    *)
(* and what it returned.                                                   *)
(***************************************************************************)
VARIABLES
    matcher,      \* CareerMatcher: mode, mode_config, careers_data, skills_mapping
    analyzer,     \* SkillsGapAnalyzer: skills_data
    comparison,   \* CareerComparison: careers_data, reality_data
    simulation,   \* CareerSimulation: simulations_data
    personality_test,    \* PersonalityTest: questions, personality_types
    role_model_service,  \* RoleModelService: region, role_models, career_tips
    warning_system,      \* FailureWarningSystem: criteria_data
    process,      \* the interpreter process: its string hash and its clock's date
    call,         \* the last call: its operation and arguments
    ret           \* what the last call returned

components == <<matcher, analyzer, comparison, simulation,
                personality_test, role_model_service, warning_system>>
vars == <<components, process, call, ret>>

NotConstructed == [constructed |-> FALSE]
None == "None"
EmptyDict == <<>>
NoCall == [op |-> "none"]
NotStarted == [started |-> FALSE]

(***************************************************************************)
(* CareerMatcher                                                           *)
(***************************************************************************)
Modes == {"student", "professional"}

\* a configuration whose student weights were edited without renormalising
\* (skills 0.30 instead of 0.20)
_get_default_mode_config_unnormalised ==
    [student |->
        [interests |-> <<45, 100>>, subjects |-> <<25, 100>>,
         skills |-> <<30, 100>>, personality |-> <<10, 100>>],
     professional |->
        [skills |-> <<40, 100>>, interests |-> <<30, 100>>,
         personality |-> <<20, 100>>, subjects |-> <<10, 100>>]]

\* the "modes" part of the default mode configuration, each weight a
\* decimal literal
_get_default_mode_config ==
    [student |->
        [interests |-> <<45, 100>>, subjects |-> <<25, 100>>,
         skills |-> <<20, 100>>, personality |-> <<10, 100>>],
     professional |->
        [skills |-> <<40, 100>>, interests |-> <<30, 100>>,
         personality |-> <<20, 100>>, subjects |-> <<10, 100>>]]

\* the configuration as loaded: every literal read as a float
_load_mode_config ==
    [m \in Modes |->
        [k \in DOMAIN _get_default_mode_config[m] |->
            PyFloat(_get_default_mode_config[m][k])]]

_get_default_skills_mapping ==
    [mathematics |-> <<"logical_thinking", "problem_solving", "analysis">>,
     computer_science |-> <<"programming", "logical_thinking", "problem_solving">>,
     psychology |-> <<"empathy", "research", "communication">>,
     art |-> <<"creativity", "design", "visual_thinking">>,
     business |-> <<"strategy", "communication", "leadership">>]

\* the one career of the built-in table
_get_default_careers ==
    <<[name |-> "Software Engineer",
       required_skills |-> <<"programming", "problem_solving", "logical_thinking", "mathematics">>,
       interests |-> <<"technology", "computers", "innovation", "problem_solving">>,
       subjects |-> <<"computer_science", "mathematics", "physics">>,
       personality_traits |-> <<"analytical", "detail_oriented", "creative">>,
       description |-> "Design and develop software applications and systems",
       growth_rate |-> "22%",
       median_salary |-> "$110,000"]>>

\* CareerMatcher.__init__ with the default region
CareerMatcher(mode, careers) ==
    [constructed |-> TRUE, region |-> "global", mode |-> mode,
     mode_config |-> _load_mode_config,
     careers_data |-> careers, skills_mapping |-> _get_default_skills_mapping]

\* the skills of every subject the mapping knows, in the order of the subjects
RECURSIVE DerivedSkills(_, _)
DerivedSkills(self, subjects) ==
    IF subjects = <<>> THEN <<>>
    ELSE (IF Head(subjects) \in DOMAIN self.skills_mapping
          THEN self.skills_mapping[Head(subjects)] ELSE <<>>)
         \o DerivedSkills(self, Tail(subjects))

\* list(set(...)) has no defined order: the profile's skills are kept as the set
_create_user_profile(self, interests, skills, subjects, personality, experience_level) ==
    [interests |-> interests,
     skills |-> Range(skills \o DerivedSkills(self, subjects)),
     subjects |-> subjects,
     personality |-> personality,
     experience_level |-> experience_level,
     mode |-> self.mode]

\* personality.get("traits", [])
PersonalityTraits(personality) ==
    IF "traits" \in DOMAIN personality THEN personality.traits ELSE <<>>

interest_score(user_profile, career) ==
    FDivNat(Cardinality(Range(user_profile.interests) \cap Range(career.interests)),
            Max(Len(career.interests), 1))

skill_score(user_profile, career) ==
    FDivNat(Cardinality(user_profile.skills \cap Range(career.required_skills)),
            Max(Len(career.required_skills), 1))

subject_score(user_profile, career) ==
    IF career.subjects # <<>>
    THEN FDivNat(Cardinality(Range(user_profile.subjects) \cap Range(career.subjects)),
                 Max(Len(career.subjects), 1))
    ELSE FZero

personality_score(user_profile, career) ==
    FDivNat(Cardinality(Range(PersonalityTraits(user_profile.personality))
                          \cap Range(career.personality_traits)),
            Max(Len(career.personality_traits), 1))

\* _adjust_for_experience returns its base score
_adjust_for_experience(base_score, experience_level, career) == base_score

\* the four sub-scores taken with // instead of /
_calculate_match_score_floor_division(self, user_profile, career) ==
    LET weights == self.mode_config[self.mode]
        Floor(x) == IF FLt(x, FOne) THEN FZero ELSE x
        s1 == FAdd(FZero, FMul(Floor(interest_score(user_profile, career)), weights.interests))
        s2 == FAdd(s1, FMul(Floor(skill_score(user_profile, career)), weights.skills))
        s3 == FAdd(s2, FMul(Floor(subject_score(user_profile, career)), weights.subjects))
        s4 == FAdd(s3, FMul(Floor(personality_score(user_profile, career)), weights.personality))
    IN  s4

\* score starts at 0.0 and gets the four weighted sub-scores added in turn
_calculate_match_score(self, user_profile, career) ==
    LET weights == self.mode_config[self.mode]
        adjusted(score) ==
            IF self.mode = "professional" /\ user_profile.experience_level # None
            THEN _adjust_for_experience(score, user_profile.experience_level, career)
            ELSE score
    IN  adjusted(
            FAdd(FAdd(FAdd(FAdd(FZero,
                                FMul(interest_score(user_profile, career), weights.interests)),
                           FMul(skill_score(user_profile, career), weights.skills)),
                      FMul(subject_score(user_profile, career), weights.subjects)),
                 FMul(personality_score(user_profile, career), weights.personality)))


(***************************************************************************)
(* SpecScore: _calculate_match_score on profile / career pairs.  Every     *)
(* list of a pair holds the first k of ItemNames, k in 0..MaxItems, so a   *)
(* dimension matches min(user k, career k) of the career's k items.        *)
(***************************************************************************)
ItemNames == <<"technology", "problem_solving", "creativity", "design">>
Prefixes == {SubSeq(ItemNames, 1, k) : k \in 0..MaxItems}

ScoreProfiles ==
    [interests : Prefixes, skills : {Range(q) : q \in Prefixes}, subjects : Prefixes,
     personality : {EmptyDict} \cup {[traits |-> q] : q \in Prefixes},
     experience_level : {None, "senior"}, mode : Modes]

ScoreCareers ==
    [name : {"Career"}, required_skills : Prefixes, interests : Prefixes,
     subjects : Prefixes, personality_traits : Prefixes]

UniformProfile(p) ==
    /\ Len(p.interests) = Cardinality(p.skills)
    /\ Len(p.interests) = Len(p.subjects)
    /\ Len(p.interests) = Len(PersonalityTraits(p.personality))

UniformCareer(c) ==
    /\ Len(c.interests) = Len(c.required_skills)
    /\ Len(c.interests) = Len(c.subjects)
    /\ Len(c.interests) = Len(c.personality_traits)

\* the scored pairs: one side varies over every combination of lengths while
\* the other has its four lists equally long
ScorePairs ==
    {pc \in ScoreProfiles \X ScoreCareers : UniformProfile(pc[1]) \/ UniformCareer(pc[2])}

InitScore ==
    /\ \E mode \in Modes : matcher = CareerMatcher(mode, _get_default_careers)
    /\ analyzer = NotConstructed
    /\ comparison = NotConstructed
    /\ simulation = NotConstructed
    /\ personality_test = NotConstructed
    /\ role_model_service = NotConstructed
    /\ warning_system = NotConstructed
    /\ process = NotStarted
    /\ call = NoCall
    /\ ret = None

CalculateMatchScore ==
    /\ call = NoCall
    /\ \E pc \in ScorePairs :
         /\ pc[1].mode = matcher.mode
         /\ call' = [op |-> "_calculate_match_score", user_profile |-> pc[1], career |-> pc[2]]
         /\ ret' = _calculate_match_score(matcher, pc[1], pc[2])
    /\ UNCHANGED <<components, process>>

\* the response is delivered; the component is idle again
Return ==
    /\ call # NoCall
    /\ call' = NoCall
    /\ ret' = None
    /\ UNCHANGED <<components, process>>

NextScore == CalculateMatchScore \/ Return

SpecScore == InitScore /\ [][NextScore]_vars



\* the four weights of the matcher's mode, added in the order the score adds them
WeightSum(self) ==
    LET w == self.mode_config[self.mode]
    IN  FAdd(FAdd(FAdd(w.interests, w.skills), w.subjects), w.personality)

\* the same four weights as written in the configuration, in hundredths
WeightHundredths(mode) ==
    LET w == _get_default_mode_config[mode]
    IN  w.interests[1] + w.skills[1] + w.subjects[1] + w.personality[1]

\* C1: in either mode of the default configuration, for every profile / career
\* pair (empty lists included) _calculate_match_score returns a value in
\* [0, 1]: each of the four coverage sub-scores lies in [0, 1] and the mode's
\* four weights sum to 1.0.
C1_ScoreInUnitInterval ==
    call.op = "_calculate_match_score" =>
        /\ FLe(FZero, ret) /\ FLe(ret, FOne)
        /\ FLe(interest_score(call.user_profile, call.career), FOne)
        /\ FLe(skill_score(call.user_profile, call.career), FOne)
        /\ FLe(subject_score(call.user_profile, call.career), FOne)
        /\ FLe(personality_score(call.user_profile, call.career), FOne)
        /\ WeightHundredths(matcher.mode) = 100
        /\ FCmp(WeightSum(matcher), FOne) = 0

\* a student-mode pair that matches in every dimension scores exactly 1.0
C1_Witness ==
    /\ call.op = "_calculate_match_score"
    /\ matcher.mode = "student"
    /\ Len(call.career.interests) = MaxItems
    /\ call.user_profile.interests = call.career.interests
    /\ FCmp(ret, FOne) = 0

\* the sub-score the subjects dimension is said to have: 0.5 for a career
\* that declares no subjects
ClaimedSubjectScore(user_profile, career) ==
    IF career.subjects = <<>> THEN PyFloat(<<1, 2>>) ELSE subject_score(user_profile, career)

\* the match score with that subjects sub-score, added as the code adds it
ClaimedMatchScore(self, user_profile, career) ==
    LET weights == self.mode_config[self.mode]
        s1 == FAdd(FZero, FMul(interest_score(user_profile, career), weights.interests))
        s2 == FAdd(s1, FMul(skill_score(user_profile, career), weights.skills))
        s3 == FAdd(s2, FMul(ClaimedSubjectScore(user_profile, career), weights.subjects))
    IN  FAdd(s3, FMul(personality_score(user_profile, career), weights.personality))

\* C18: in _calculate_match_score a dimension for which the career declares
\* no items has sub-score 0 for interests, skills and personality traits, and
\* the subjects dimension of a career without subjects contributes 0.5 times
\* the subjects weight
C18_EmptyDimensionSubScores ==
    call.op = "_calculate_match_score" =>
        /\ call.career.interests = <<>>
             => FCmp(interest_score(call.user_profile, call.career), FZero) = 0
        /\ call.career.required_skills = <<>>
             => FCmp(skill_score(call.user_profile, call.career), FZero) = 0
        /\ call.career.personality_traits = <<>>
             => FCmp(personality_score(call.user_profile, call.career), FZero) = 0
        /\ call.career.subjects = <<>>
             => FCmp(ret, ClaimedMatchScore(matcher, call.user_profile, call.career)) = 0


(***************************************************************************)
(* SpecMatcher: a matcher constructed with a career table answers          *)
(* get_recommendations.                                                    *)
(***************************************************************************)
\* career_scores[:5]
TopRecommendations == 5

\* the careers a table is made of: the built-in one and six more in the shape
\* of the career file's records; two pairs of them have the same item lists
CareerPool ==
    {_get_default_careers[1],
     [name |-> "Web Developer",
      required_skills |-> <<"programming", "problem_solving", "logical_thinking", "mathematics">>,
      interests |-> <<"technology", "computers", "innovation", "problem_solving">>,
      subjects |-> <<"computer_science", "mathematics", "physics">>,
      personality_traits |-> <<"analytical", "detail_oriented", "creative">>],
     [name |-> "Data Scientist",
      required_skills |-> <<"programming", "statistics", "machine_learning">>,
      interests |-> <<"technology", "data", "research">>,
      subjects |-> <<"mathematics", "statistics">>,
      personality_traits |-> <<"analytical", "curious">>],
     [name |-> "Graphic Designer",
      required_skills |-> <<"design", "creativity">>,
      interests |-> <<"art", "design">>,
      subjects |-> <<"art">>,
      personality_traits |-> <<"creative">>],
     [name |-> "Psychologist",
      required_skills |-> <<"empathy", "research", "communication">>,
      interests |-> <<"people", "helping">>,
      subjects |-> <<"psychology">>,
      personality_traits |-> <<"empathetic">>],
     [name |-> "Teacher",
      required_skills |-> <<"communication", "patience">>,
      interests |-> <<"people", "education">>,
      subjects |-> <<"education">>,
      personality_traits |-> <<"empathetic", "patient">>],
     [name |-> "Freelancer",
      required_skills |-> <<>>, interests |-> <<>>,
      subjects |-> <<>>, personality_traits |-> <<>>]}

\* a table lists each career once
CareerTables == DistinctSeqsUpTo(CareerPool, MaxCareers)

\* the arguments of get_recommendations; experience_level keeps its default
RecommendationInputs ==
    [interests : {<<>>, <<"technology", "problem_solving">>},
     skills : {<<>>, <<"programming", "design">>},
     subjects : {<<>>, <<"computer_science">>},
     personality : {[traits |-> <<"analytical">>]},
     experience_level : {None}]

\* a career of the pool as a file lists it with a salary and a growth rate
Salaried(career, median_salary, growth_rate) ==
    ("median_salary" :> median_salary) @@ ("growth_rate" :> growth_rate) @@ career

SalariedTeacher ==
    Salaried(CHOOSE career \in CareerPool : career.name = "Teacher", "$60,000", "5%")

\* the careers of the tables of the recommendations route: two careers with a
\* median_salary and a growth_rate, and one without
RouteCareerPool ==
    {_get_default_careers[1], SalariedTeacher,
     CHOOSE career \in CareerPool : career.name = "Data Scientist"}

\* _calculate_match_score is pure: its value on the profiles and careers of
\* this specification, computed once
MatchScoreMemo ==
    [up \in {_create_user_profile(CareerMatcher(m, <<>>), a.interests, a.skills,
                                  a.subjects, a.personality, a.experience_level) :
               m \in Modes, a \in RecommendationInputs},
     c \in CareerPool \cup RouteCareerPool |->
        _calculate_match_score(CareerMatcher(up.mode, <<>>), up, c)]

MatchScore(user_profile, career) == MatchScoreMemo[user_profile, career]

\* list.sort(key=score, reverse=True) is stable: an entry goes behind every
\* entry whose score is not lower
RECURSIVE InsertByScoreReverse(_, _)
InsertByScoreReverse(sorted, x) ==
    IF sorted = <<>> THEN <<x>>
    ELSE IF FLt(Head(sorted)[2], x[2]) THEN <<x>> \o sorted
    ELSE <<Head(sorted)>> \o InsertByScoreReverse(Tail(sorted), x)

RECURSIVE SortByScoreReverse(_)
SortByScoreReverse(l) ==
    IF l = <<>> THEN <<>>
    ELSE InsertByScoreReverse(SortByScoreReverse(SubSeq(l, 1, Len(l) - 1)), l[Len(l)])

\* sorted(key=score)[::-1]: descending, but entries of equal score reversed
RECURSIVE InsertByScore(_, _)
InsertByScore(sorted, x) ==
    IF sorted = <<>> THEN <<x>>
    ELSE IF FLt(x[2], Head(sorted)[2]) THEN <<x>> \o sorted
    ELSE <<Head(sorted)>> \o InsertByScore(Tail(sorted), x)

RECURSIVE SortByScore(_)
SortByScore(l) ==
    IF l = <<>> THEN <<>>
    ELSE InsertByScore(SortByScore(SubSeq(l, 1, Len(l) - 1)), l[Len(l)])

Reverse(l) == [i \in 1..Len(l) |-> l[Len(l) + 1 - i]]

get_recommendations_sorted_then_reversed(self, interests, skills, subjects, personality, experience_level) ==
    LET user_profile == _create_user_profile(self, interests, skills, subjects,
                                             personality, experience_level)
        career_scores == [i \in DOMAIN self.careers_data |->
                            <<self.careers_data[i],
                              MatchScore(user_profile, self.careers_data[i])>>]
        sorted == Reverse(SortByScore(career_scores))
    IN  [i \in 1..Min(TopRecommendations, Len(sorted)) |-> sorted[i][1]]

get_recommendations(self, interests, skills, subjects, personality, experience_level) ==
    LET career_scores(user_profile) ==
            [i \in DOMAIN self.careers_data |->
                <<self.careers_data[i], MatchScore(user_profile, self.careers_data[i])>>]
        top(sorted) == [i \in 1..Min(TopRecommendations, Len(sorted)) |-> sorted[i][1]]
    IN  top(SortByScoreReverse(career_scores(
                _create_user_profile(self, interests, skills, subjects, personality,
                                     experience_level))))

InitMatcher ==
    /\ \E mode \in Modes, careers \in CareerTables : matcher = CareerMatcher(mode, careers)
    /\ analyzer = NotConstructed
    /\ comparison = NotConstructed
    /\ simulation = NotConstructed
    /\ personality_test = NotConstructed
    /\ role_model_service = NotConstructed
    /\ warning_system = NotConstructed
    /\ process = NotStarted
    /\ call = NoCall
    /\ ret = None

GetRecommendations ==
    /\ call = NoCall
    /\ \E a \in RecommendationInputs :
         /\ call' = [op |-> "get_recommendations", args |-> a]
         /\ ret' = get_recommendations(matcher, a.interests, a.skills, a.subjects,
                                       a.personality, a.experience_level)
    /\ UNCHANGED <<components, process>>

NextMatcher == GetRecommendations \/ Return

SpecMatcher == InitMatcher /\ [][NextMatcher]_vars


\* the profile the last get_recommendations call scored against
CallProfile ==
    _create_user_profile(matcher, call.args.interests, call.args.skills,
                         call.args.subjects, call.args.personality,
                         call.args.experience_level)

\* where a career stands in the matcher's table
TableIndex(career) ==
    CHOOSE i \in DOMAIN matcher.careers_data : matcher.careers_data[i] = career

\* C2: get_recommendations returns min(5, number of careers) careers of the
\* table, in non-increasing order of match score, careers of equal score in
\* the order of the table, and no career left out scores strictly higher than
\* a returned one.
C2_RankedStableTopFive ==
    call.op = "get_recommendations" =>
        LET table == matcher.careers_data
            up    == CallProfile
            score == [c \in Range(table) |-> MatchScore(up, c)]
            index == [c \in Range(table) |-> TableIndex(c)]
        IN  /\ Len(ret) = Min(5, Len(table))
            /\ \A i \in DOMAIN ret : ret[i] \in Range(table)
            /\ \A i, j \in DOMAIN ret :
                 i < j =>
                   /\ ret[i] # ret[j]
                   /\ FLe(score[ret[j]], score[ret[i]])
                   /\ FCmp(score[ret[i]], score[ret[j]]) = 0
                        => index[ret[i]] < index[ret[j]]
            /\ \A c \in Range(table) \ Range(ret) :
                 \A i \in DOMAIN ret : ~ FLt(score[ret[i]], score[c])

\* a table of more than five careers, two returned careers tie on a positive
\* score, two differ, and a career is left out
C2_Witness ==
    /\ call.op = "get_recommendations"
    /\ Len(matcher.careers_data) > 5
    /\ Len(ret) = 5
    /\ LET up    == CallProfile
           score == [i \in DOMAIN ret |-> MatchScore(up, ret[i])]
       IN  /\ \E i, j \in DOMAIN ret :
                i < j /\ FCmp(score[i], score[j]) = 0 /\ FLt(FZero, score[i])
           /\ \E i, j \in DOMAIN ret : FLt(score[j], score[i])

\* the profile and the career have an item in common in some dimension
SharesItem(user_profile, career) ==
    \/ Range(user_profile.interests) \cap Range(career.interests) # {}
    \/ user_profile.skills \cap Range(career.required_skills) # {}
    \/ Range(user_profile.subjects) \cap Range(career.subjects) # {}
    \/ Range(PersonalityTraits(user_profile.personality))
         \cap Range(career.personality_traits) # {}

\* C3: in student mode a career that shares an item with the profile in some
\* dimension scores strictly higher than every career that shares none, and
\* get_recommendations returns it before any such career it also returns.
C3_SharingCareerRanksFirst ==
    (call.op = "get_recommendations" /\ matcher.mode = "student") =>
        LET table  == matcher.careers_data
            up     == CallProfile
            score  == [c \in Range(table) |-> MatchScore(up, c)]
            shares == [c \in Range(table) |-> SharesItem(up, c)]
        IN  /\ \A c, d \in Range(table) :
                 (shares[c] /\ ~ shares[d]) => FLt(score[d], score[c])
            /\ \A i, j \in DOMAIN ret :
                 (shares[ret[i]] /\ ~ shares[ret[j]]) => i < j

\* the scenario of the demo: the table lists a career that shares nothing
\* before the software engineer, and both are returned
C3_Witness ==
    /\ call.op = "get_recommendations"
    /\ matcher.mode = "student"
    /\ call.args.interests = <<"technology", "problem_solving">>
    /\ call.args.subjects = <<"computer_science">>
    /\ \E i, j \in DOMAIN ret :
         /\ i < j
         /\ ret[i].name = "Software Engineer"
         /\ ret[j].name = "Psychologist"
         /\ TableIndex(ret[j]) < TableIndex(ret[i])


(***************************************************************************)
(* SkillsGapAnalyzer                                                       *)
(***************************************************************************)
\* the length of the user_skills argument and of a career's required_skills
MaxUserSkills == 2
MaxRequiredSkills == 2

\* the subjects_to_skills part of the built-in skills data
_get_default_skills_data ==
    [computer_science |-> <<"programming", "algorithms", "data_structures", "system_design">>,
     mathematics |-> <<"analytical_thinking", "problem_solving", "statistics", "logical_reasoning">>,
     business |-> <<"strategic_thinking", "communication", "leadership", "project_management">>,
     psychology |-> <<"empathy", "research", "communication", "analytical_thinking">>,
     art |-> <<"creativity", "design", "visual_thinking", "attention_to_detail">>]

\* SkillsGapAnalyzer.__init__
SkillsGapAnalyzer == [constructed |-> TRUE, skills_data |-> _get_default_skills_data]

\* skill.lower().replace(' ', '_')
NormalizeSkill(skill) == StrReplace(StrLower(skill), " ", "_")

NormalizeAll(skills) == [i \in DOMAIN skills |-> NormalizeSkill(skills[i])]

RECURSIVE _derive_skills_from_subjects(_, _)
_derive_skills_from_subjects(self, subjects) ==
    IF subjects = <<>> THEN <<>>
    ELSE LET subject_normalized == NormalizeSkill(Head(subjects))
         IN  (IF subject_normalized \in DOMAIN self.skills_data
              THEN self.skills_data[subject_normalized] ELSE <<>>)
             \o _derive_skills_from_subjects(self, Tail(subjects))

\* career_requirements.get('required_skills', [])
RequiredSkillsOf(career_requirements) ==
    IF "required_skills" \in DOMAIN career_requirements
    THEN career_requirements.required_skills ELSE <<>>

\* round(len(current) / len(required) * 100, 1) in tenths of a percent, or the
\* int 100 when nothing is required
SkillMatchTenths(current_skills, required_skills) ==
    IF required_skills # <<>>
    THEN FRoundDigits(FMul(FDivNat(Len(current_skills), Len(required_skills)),
                           FFromNat(100)), 1)
    ELSE 1000

\* the user's skills are compared as typed, without lower() and replace()
analyze_skills_gap_unnormalised_user(self, user_skills, career_requirements, user_subjects) ==
    LET required_skills == NormalizeAll(RequiredSkillsOf(career_requirements))
        derived_skills  == IF user_subjects # None /\ user_subjects # <<>>
                           THEN _derive_skills_from_subjects(self, user_subjects)
                           ELSE <<>>
        user_skills_normalized == Range(user_skills \o derived_skills)
        current_skills == SelectSeq(required_skills, LAMBDA skill : skill \in user_skills_normalized)
        missing_skills == SelectSeq(required_skills, LAMBDA skill : skill \notin user_skills_normalized)
    IN  [career_name |-> IF "name" \in DOMAIN career_requirements
                         THEN career_requirements.name ELSE "Unknown",
         skill_match_tenths |-> SkillMatchTenths(current_skills, required_skills),
         current_skills |-> [count |-> Len(current_skills), skills |-> current_skills],
         missing_skills |-> [count |-> Len(missing_skills), skills |-> missing_skills]]

\* the missing skills are taken before the subject-derived skills are added
analyze_skills_gap_missing_before_derived(self, user_skills, career_requirements, user_subjects) ==
    LET required_skills == NormalizeAll(RequiredSkillsOf(career_requirements))
        derived_skills  == IF user_subjects # None /\ user_subjects # <<>>
                           THEN _derive_skills_from_subjects(self, user_subjects)
                           ELSE <<>>
        user_skills_normalized == Range(NormalizeAll(user_skills) \o derived_skills)
        current_skills == SelectSeq(required_skills, LAMBDA skill : skill \in user_skills_normalized)
        missing_skills == SelectSeq(required_skills,
                                 LAMBDA skill : skill \notin Range(NormalizeAll(user_skills)))
    IN  [career_name |-> IF "name" \in DOMAIN career_requirements
                         THEN career_requirements.name ELSE "Unknown",
         skill_match_tenths |-> SkillMatchTenths(current_skills, required_skills),
         current_skills |-> [count |-> Len(current_skills), skills |-> current_skills],
         missing_skills |-> [count |-> Len(missing_skills), skills |-> missing_skills]]

\* list(set(...)) has no defined order and is only searched: kept as the set.
\* skill_match_tenths is skill_match_percentage in tenths of a percent.
analyze_skills_gap(self, user_skills, career_requirements, user_subjects) ==
    LET required_skills == NormalizeAll(RequiredSkillsOf(career_requirements))
        derived_skills  == IF user_subjects # None /\ user_subjects # <<>>
                           THEN _derive_skills_from_subjects(self, user_subjects)
                           ELSE <<>>
        user_skills_normalized == Range(NormalizeAll(user_skills) \o derived_skills)
        current_skills == SelectSeq(required_skills, LAMBDA skill : skill \in user_skills_normalized)
        missing_skills == SelectSeq(required_skills, LAMBDA skill : skill \notin user_skills_normalized)
    IN  [career_name |-> IF "name" \in DOMAIN career_requirements
                         THEN career_requirements.name ELSE "Unknown",
         skill_match_tenths |-> SkillMatchTenths(current_skills, required_skills),
         current_skills |-> [count |-> Len(current_skills), skills |-> current_skills],
         missing_skills |-> [count |-> Len(missing_skills), skills |-> missing_skills]]

(***************************************************************************)
(* SpecGap: an analyzer answers analyze_skills_gap.                        *)
(***************************************************************************)
UserSkillStrings == {"Programming", "system design", "sql"}
RequiredSkillStrings == {"programming", "System Design", "Algorithms", "SQL"}
UserSubjectLists == {None, <<>>, <<"Computer Science">>, <<"History">>}

GapCareers ==
    {[name |-> "Software Engineer", required_skills |-> q] :
        q \in SeqsUpTo(RequiredSkillStrings, MaxRequiredSkills)}
    \cup {[name |-> "Volunteer"]}

InitGap ==
    /\ matcher = NotConstructed
    /\ analyzer = SkillsGapAnalyzer
    /\ comparison = NotConstructed
    /\ simulation = NotConstructed
    /\ personality_test = NotConstructed
    /\ role_model_service = NotConstructed
    /\ warning_system = NotConstructed
    /\ process = NotStarted
    /\ call = NoCall
    /\ ret = None

AnalyzeSkillsGap ==
    /\ call = NoCall
    /\ \E user_skills \in SeqsUpTo(UserSkillStrings, MaxUserSkills),
          career \in GapCareers, user_subjects \in UserSubjectLists :
         /\ call' = [op |-> "analyze_skills_gap", user_skills |-> user_skills,
                     career_requirements |-> career, user_subjects |-> user_subjects]
         /\ ret' = analyze_skills_gap(analyzer, user_skills, career, user_subjects)
    /\ UNCHANGED <<components, process>>

NextGap == AnalyzeSkillsGap \/ Return

SpecGap == InitGap /\ [][NextGap]_vars

\* the career's required skills, the user_skills argument and the skills
\* derived from user_subjects, normalized as the analyzer compares them
CallRequired == Range(NormalizeAll(RequiredSkillsOf(call.career_requirements)))
CallUserSkills == Range(NormalizeAll(call.user_skills))
CallDerived ==
    IF call.user_subjects = None THEN {}
    ELSE Range(_derive_skills_from_subjects(analyzer, call.user_subjects))

\* C4: for every call of analyze_skills_gap the returned current and missing
\* skills are disjoint and together are exactly the career's normalized
\* required skills.
C4_CurrentMissingPartition ==
    call.op = "analyze_skills_gap" =>
        /\ Range(ret.current_skills.skills) \cap Range(ret.missing_skills.skills) = {}
        /\ Range(ret.current_skills.skills) \cup Range(ret.missing_skills.skills)
             = CallRequired

\* a call whose only match comes from a subject, with a skill still missing
C4_Witness ==
    /\ call.op = "analyze_skills_gap"
    /\ call.user_subjects = <<"Computer Science">>
    /\ call.user_skills = <<>>
    /\ ret.current_skills.skills = <<"algorithms">>
    /\ ret.missing_skills.skills = <<"sql">>

\* C5 as claimed: for any user_subjects, skill_match_percentage is 100 when the
\* normalized user_skills argument contains every required skill, and 0 when
\* the user_skills argument shares nothing with a non-empty requirement.
C5_AsClaimed ==
    call.op = "analyze_skills_gap" =>
        /\ CallRequired \subseteq CallUserSkills => ret.skill_match_tenths = 1000
        /\ (CallRequired # {} /\ CallRequired \cap CallUserSkills = {})
             => ret.skill_match_tenths = 0

\* C5 amended: skill_match_percentage is 100 when the normalized user_skills
\* argument contains every required skill, and 0 when the user's skills
\* together with the skills derived from user_subjects share nothing with a
\* non-empty requirement.
C5_MatchPercentageExtremes ==
    call.op = "analyze_skills_gap" =>
        /\ CallRequired \subseteq CallUserSkills => ret.skill_match_tenths = 1000
        /\ (CallRequired # {} /\ CallRequired \cap (CallUserSkills \cup CallDerived) = {})
             => ret.skill_match_tenths = 0

\* both extremes happen on non-trivial calls: a user who typed the required
\* skills in another case and spacing, and (in another call) one who has none
C5_Witness ==
    /\ call.op = "analyze_skills_gap"
    /\ \/ /\ call.user_skills = <<"Programming", "system design">>
          /\ RequiredSkillsOf(call.career_requirements) = <<"System Design", "programming">>
          /\ ret.skill_match_tenths = 1000
       \/ /\ call.user_skills = <<"sql">>
          /\ call.user_subjects = <<"History">>
          /\ RequiredSkillsOf(call.career_requirements) = <<"Algorithms">>
          /\ ret.skill_match_tenths = 0



(***************************************************************************)
(* CareerComparison                                                        *)
(***************************************************************************)
\* Strings of the model are ASCII.  "#" stands for the rupee sign (U+20B9);
\* "@^|" stands for the three characters U+00E2 U+201A U+00B9 that line 72 of
\* career_comparison.py passes to replace().  No other string of the model
\* holds "#", "@", "^" or "|".
RupeeSign == "#"
MisdecodedRupee == "@^|"

\* d.get(key, default)
DictGet(d, key, default) == IF key \in DOMAIN d THEN d[key] ELSE default

\* the white space str.strip() and float() skip, of the characters that a
\* string of the model can hold
WhitespaceChars == " \t\n\r\f"
IsSpace(c) == \E i \in 1..Len(WhitespaceChars) : SubSeq(WhitespaceChars, i, i) = c

RECURSIVE StrLStrip(_)
StrLStrip(s) == IF s # "" /\ IsSpace(Head(s)) THEN StrLStrip(Tail(s)) ELSE s

RECURSIVE StrRStrip(_)
StrRStrip(s) ==
    IF s # "" /\ IsSpace(SubSeq(s, Len(s), Len(s)))
    THEN StrRStrip(SubSeq(s, 1, Len(s) - 1)) ELSE s

\* s.strip()
StrStrip(s) == StrRStrip(StrLStrip(s))

\* digit (["_"] digit)*: the digits of a float literal
IsDigitPart(s) ==
    /\ s # ""
    /\ IsDigit(Head(s))
    /\ IsDigit(SubSeq(s, Len(s), Len(s)))
    /\ \A i \in 1..Len(s) : IsDigit(SubSeq(s, i, i)) \/ SubSeq(s, i, i) = "_"
    /\ ~StrContains("__", s)

\* a * 5^k; the exponent is halved, so that the depth of the recursion is
\* its logarithm
RECURSIVE BigTimesPow5(_, _)
BigTimesPow5(a, k) ==
    IF a = <<>> THEN <<>>
    ELSE IF k <= 6 THEN BigMulSmall(a, 5 ^ k)
    ELSE BigTimesPow5(BigTimesPow5(a, k \div 2), k - k \div 2)

\* the number a string of digits writes, of any length ("" is 0): the left
\* half times 10^(the length of the right half) plus the right half
RECURSIVE BigFromDigits(_)
BigFromDigits(s) ==
    IF Len(s) <= 4 THEN BigFromNat(DigitsToNat(s))
    ELSE BigAdd(BigShl(BigTimesPow5(BigFromDigits(SubSeq(s, 1, Len(s) \div 2)),
                                    Len(s) - Len(s) \div 2),
                       Len(s) - Len(s) \div 2),
                BigFromDigits(SubSeq(s, Len(s) \div 2 + 1, Len(s))))

\* a // 5^k, and whether a remainder was dropped
DroppingRemainder(x) == [q |-> x.q, sticky |-> x.r # 0]
AlsoDropping(rest, sticky) == [q |-> rest.q, sticky |-> rest.sticky \/ sticky]

RECURSIVE BigDivPow5(_, _)
BigDivRestPow5(x, k) == AlsoDropping(BigDivPow5(x.q, k), x.sticky)

BigDivPow5(a, k) ==
    IF a = <<>> THEN [q |-> <<>>, sticky |-> FALSE]
    ELSE IF k <= 6 THEN DroppingRemainder(BigDivSmall(a, 5 ^ k))
    ELSE BigDivRestPow5(BigDivPow5(a, k \div 2), k - k \div 2)

\* the exponents of binary64: m * 2^e with 2^52 <= m < 2^53 is finite up to
\* e = MaxFloatExp and a multiple of 2^MinFloatExp
MaxFloatExp == 971
MinFloatExp == 0 - 1074

\* a float of float(): ok is FALSE where float() raises ValueError; kind is
\* "finite", "inf" or "nan"; neg is the sign; v is the absolute value of a
\* finite float
FloatValue(neg, kind, v) == [ok |-> TRUE, neg |-> neg, kind |-> kind, v |-> v]
NoFloat == [ok |-> FALSE]

\* the float x or, beyond the largest float, inf
Overflowing(neg, x) ==
    IF x.m # <<>> /\ x.e > MaxFloatExp THEN FloatValue(neg, "inf", FZero)
    ELSE FloatValue(neg, "finite", x)

\* n * 2^(-shift) (plus a dropped remainder when sticky) rounded to a
\* multiple of 2^MinFloatExp, ties to even: a subnormal float
FSubnormal(n, shift, sticky) ==
    FRound(NearestQuotient(n, BigShr(n, shift + MinFloatExp), shift + MinFloatExp, sticky),
           MinFloatExp, FALSE)

\* quotient.q * 2^(-shift) as a float, correctly rounded
FOfQuotient(quotient, shift, normal) ==
    IF normal.e >= MinFloatExp THEN normal
    ELSE FSubnormal(quotient.q, shift, quotient.sticky)

FRoundedQuotient(quotient, shift) ==
    FOfQuotient(quotient, shift, FRound(quotient.q, 0 - shift, quotient.sticky))

\* the bits that keep digits * 2^bits // 5^k above 2^GuardShift
QuotientBits(k) == GuardShift + (7 * k) \div 3 + 1

\* digits * 10^exp10 = digits * 5^exp10 * 2^exp10 as a float, correctly rounded
FDecimal(neg, digits, exp10) ==
    IF exp10 >= 0
    THEN Overflowing(neg, FRound(BigTimesPow5(digits, exp10), exp10, FALSE))
    ELSE Overflowing(neg,
             FRoundedQuotient(
                 BigDivPow5(BigShl(digits, QuotientBits(0 - exp10)), 0 - exp10),
                 QuotientBits(0 - exp10) - exp10))

\* s without its leading zeros
WithoutLeadingZeros(s) ==
    IF \A i \in 1..Len(s) : SubSeq(s, i, i) = "0" THEN ""
    ELSE SubSeq(s, CHOOSE i \in 1..Len(s) :
                       /\ SubSeq(s, i, i) # "0"
                       /\ \A j \in 1..(i - 1) : SubSeq(s, j, j) = "0",
                Len(s))

\* the decimal exponents beyond which every float is inf or 0.0
HugeExp10 == 400

\* the most digits of an exponent that is read as a number
MaxExponentDigits == 9

\* the exponent that a string of digits writes, limit at most
ExponentOf(digits, limit) ==
    IF Len(WithoutLeadingZeros(digits)) > MaxExponentDigits THEN limit
    ELSE Min(limit, DigitsToNat(WithoutLeadingZeros(digits)))

\* the float of the digits of a literal (without leading zeros), the number
\* of its fraction digits and the exponent it writes: the literal is below
\* 10^(Len(digits) - fraction_digits + exponent) and not below a tenth of it
FloatOfDigits(neg, digits, fraction_digits, exponent) ==
    IF digits = "" THEN FloatValue(neg, "finite", FZero)
    ELSE IF Len(digits) - fraction_digits + exponent > HugeExp10
    THEN FloatValue(neg, "inf", FZero)
    ELSE IF Len(digits) - fraction_digits + exponent < 0 - HugeExp10
    THEN FloatValue(neg, "finite", FZero)
    ELSE FDecimal(neg, BigFromDigits(digits), exponent - fraction_digits)

\* [+-] digitpart: the exponent of a literal
IsExponent(s) ==
    IsDigitPart(IF s # "" /\ Head(s) \in {"+", "-"} THEN Tail(s) ELSE s)

\* the exponent that s writes, or limit (-limit) when it is beyond
ExponentValue(s, limit) ==
    IF Head(s) = "-" THEN 0 - ExponentOf(StrReplace(Tail(s), "_", ""), limit)
    ELSE IF Head(s) = "+" THEN ExponentOf(StrReplace(Tail(s), "_", ""), limit)
    ELSE ExponentOf(StrReplace(s, "_", ""), limit)

\* an exponent beyond which a literal of these digits is inf or 0.0 wherever
\* its point stands
ExponentLimit(whole, fraction) == HugeExp10 + Len(whole) + Len(fraction) + 1

\* the float of the literal whole "." fraction "e" exponent
FloatOfLiteral(neg, whole, fraction, exponent) ==
    IF /\ whole = "" \/ IsDigitPart(whole)
       /\ fraction = "" \/ IsDigitPart(fraction)
       /\ whole \o fraction # ""
       /\ IsExponent(exponent)
    THEN FloatOfDigits(neg,
             WithoutLeadingZeros(StrReplace(whole, "_", "") \o StrReplace(fraction, "_", "")),
             Len(StrReplace(fraction, "_", "")),
             ExponentValue(exponent, ExponentLimit(whole, fraction)))
    ELSE NoFloat

\* the float of a literal split at its point and at its "e"
FloatOfParts(neg, mantissa, parts) ==
    IF Len(mantissa) > 2 \/ Len(parts) > 2 THEN NoFloat
    ELSE FloatOfLiteral(neg, mantissa[1],
                        IF Len(mantissa) = 2 THEN mantissa[2] ELSE "",
                        IF Len(parts) = 2 THEN parts[2] ELSE "0")

\* "1." and ".5" are literals, "." and "1.e" with nothing after the e are not
FloatOfSplit(neg, parts) == FloatOfParts(neg, StrSplit(parts[1], "."), parts)

\* the float of a lower-case string without sign
FloatOfUnsigned(neg, body) ==
    IF body \in {"inf", "infinity"} THEN FloatValue(neg, "inf", FZero)
    ELSE IF body = "nan" THEN FloatValue(neg, "nan", FZero)
    ELSE FloatOfSplit(neg, StrSplit(body, "e"))

\* text without the sign it may start with
Unsigned(text) ==
    IF text # "" /\ Head(text) \in {"+", "-"} THEN Tail(text) ELSE text

FloatOfStripped(text) ==
    FloatOfUnsigned(text # "" /\ Head(text) = "-", StrLower(Unsigned(text)))

\* float(s): white space around s is skipped; then a sign, and inf, infinity
\* or nan in any case, or digits with at most one point and an exponent,
\* where "_" may stand between two digits
ParseFloat(s) == FloatOfStripped(StrStrip(s))

\* int(x) of a float of float(): OverflowError for inf and ValueError for nan
\* are failures; no "-" reaches float() in _normalize_salary.  An int of the
\* model is below 2^31: TLC stops on a larger one.
IntOfFloat(x) ==
    IF x.ok /\ x.kind = "finite" /\ x.v.e <= MaxFloatExp
    THEN [ok |-> TRUE, v |-> FTrunc(x.v)]
    ELSE [ok |-> FALSE]

\* int(sum / 2); inf / 2 is inf
IntOfHalf(sum) ==
    IF sum.kind = "finite"
    THEN IntOfFloat(FloatValue(FALSE, "finite", FDivSmall(sum.v, 2)))
    ELSE [ok |-> FALSE]

\* int((low + high) / 2)
IntOfAverage(low, high) ==
    IF low.ok /\ high.ok /\ low.kind = "finite" /\ high.kind = "finite"
    THEN IntOfHalf(Overflowing(FALSE, FAdd(low.v, high.v)))
    ELSE [ok |-> FALSE]

\* int(x * 100000)
IntOfLakhs(x) ==
    IF x.ok /\ x.kind = "finite"
    THEN IntOfFloat(Overflowing(FALSE, FMul(x.v, FFromNat(100000))))
    ELSE [ok |-> FALSE]

\* the value of a conversion, 0 where it failed: the except clauses of lines
\* 81 and 92 turn every failure of float() and int() into 0
OrZero(converted) == IF converted.ok THEN converted.v ELSE 0

\* line 87: 'lakh' in salary_str.lower() or 'l' in clean_salary.lower()
WritesLakhs(salary_str, clean_salary) ==
    StrContains("lakh", StrLower(salary_str)) \/ StrContains("l", StrLower(clean_salary))

\* the texts that float() is called with: parts[0] and parts[1] of a range
\* (lines 78 and 79), clean_salary without "lakh" and "l" (line 89) or
\* clean_salary (line 91)
ConvertedTexts(salary_str, clean_salary) ==
    IF StrContains("-", clean_salary)
    THEN <<StrSplit(clean_salary, "-")[1], StrSplit(clean_salary, "-")[2]>>
    ELSE IF WritesLakhs(salary_str, clean_salary)
    THEN <<StrReplace(StrReplace(StrLower(clean_salary), "lakh", ""), "l", "")>>
    ELSE <<clean_salary>>

\* float() of each text
FloatsOf(texts) == [i \in DOMAIN texts |-> ParseFloat(texts[i])]

\* what lines 75 to 93 return once float() has been called
SalaryOfFloats(salary_str, clean_salary, floats) ==
    IF StrContains("-", clean_salary) THEN OrZero(IntOfAverage(floats[1], floats[2]))
    ELSE IF WritesLakhs(salary_str, clean_salary) THEN OrZero(IntOfLakhs(floats[1]))
    ELSE OrZero(IntOfFloat(floats[1]))

\* clean_salary of line 72 and what lines 75 to 93 make of it
NormalizedSalary(salary_str, clean_salary) ==
    SalaryOfFloats(salary_str, clean_salary,
                   FloatsOf(ConvertedTexts(salary_str, clean_salary)))

_normalize_salary(salary_str) ==
    IF salary_str = "" \/ salary_str = "N/A" THEN 0
    ELSE NormalizedSalary(
             salary_str,
             StrReplace(StrReplace(StrReplace(StrReplace(
                 salary_str, "$", ""), MisdecodedRupee, ""), ",", ""), " ", ""))

\* stress_mapping.get(stress_level.lower(), 3)
_get_stress_level_score(stress_level) ==
    LET stress_mapping == [low |-> 1, medium |-> 3, high |-> 5]
                          @@ ("medium-low" :> 2) @@ ("medium-high" :> 4)
    IN  DictGet(stress_mapping, StrLower(stress_level), 3)

_get_work_life_balance_score(balance_desc) ==
    LET desc == StrLower(balance_desc)
    IN  IF StrContains("excellent", desc) \/ StrContains("great", desc) THEN 5
        ELSE IF StrContains("good", desc) \/ StrContains("flexible", desc) THEN 4
        ELSE IF StrContains("moderate", desc) \/ StrContains("balanced", desc) THEN 3
        ELSE IF StrContains("challenging", desc) \/ StrContains("demanding", desc) THEN 2
        ELSE IF StrContains("poor", desc) \/ StrContains("intense", desc) THEN 1
        ELSE 3

\* the last index of the run of digits that starts at index i of s
DigitRunEnd(s, i) ==
    CHOOSE j \in i..Len(s) :
        /\ AllDigits(SubSeq(s, i, j))
        /\ (j = Len(s) \/ ~IsDigit(SubSeq(s, j + 1, j + 1)))

\* inf: above every finite float in FCmp
FInf == [m |-> BigShl(<<1>>, MantBits - 1), e |-> MaxFloatExp + 1]

\* the float that float() returned for a string of digits: inf when the
\* digits are beyond the largest float
FloatNumber(x) == IF x.kind = "inf" THEN FInf ELSE x.v

\* re.search(r'(\d+(?:\.\d+)?)%?', growth_str): the leftmost run of digits,
\* with the point and digits that follow it if any; float() of group 1
_extract_growth_rate(growth_str) ==
    IF growth_str = "" \/ growth_str = "N/A" THEN FZero
    ELSE IF \A i \in 1..Len(growth_str) : ~IsDigit(SubSeq(growth_str, i, i)) THEN FZero
    ELSE LET i == CHOOSE k \in 1..Len(growth_str) :
                      /\ IsDigit(SubSeq(growth_str, k, k))
                      /\ \A h \in 1..(k - 1) : ~IsDigit(SubSeq(growth_str, h, h))
             j == DigitRunEnd(growth_str, i)
             fraction == /\ j + 2 <= Len(growth_str)
                         /\ SubSeq(growth_str, j + 1, j + 1) = "."
                         /\ IsDigit(SubSeq(growth_str, j + 2, j + 2))
             group1 == IF fraction
                       THEN SubSeq(growth_str, i, DigitRunEnd(growth_str, j + 2))
                       ELSE SubSeq(growth_str, i, j)
         IN  FloatNumber(ParseFloat(group1))

\* x[key] < y[key]: growth_numeric is a float, the other keys are ints
KeyLess(x, y, key) ==
    IF key = "growth_numeric" THEN FLt(x[key], y[key]) ELSE x[key] < y[key]

\* sorted(items, key=lambda x: x[key], reverse=reverse): the sort is stable,
\* and with reverse=True items of equal key keep their order too.  An item
\* goes after every item that sorts before it and after the earlier items of
\* the same key.
Sorted(items, key, reverse) ==
    LET n == Len(items)
        Before(x, y) == IF reverse THEN KeyLess(y, x, key) ELSE KeyLess(x, y, key)
        position(i) ==
            1 + Cardinality({j \in 1..n : Before(items[j], items[i])})
              + Cardinality({j \in 1..(i - 1) :
                    ~KeyLess(items[i], items[j], key) /\ ~KeyLess(items[j], items[i], key)})
    IN  [p \in 1..n |-> items[CHOOSE i \in 1..n : position(i) = p]]

Names(careers) == [i \in 1..Len(careers) |-> careers[i].name]

\* the stress ranking sorted with reverse=True as well
_calculate_rankings_stress_descending(careers) ==
    [salary |-> Names(Sorted(careers, "salary_numeric", TRUE)),
     stress_level |-> Names(Sorted(careers, "stress_score", TRUE)),
     work_life_balance |-> Names(Sorted(careers, "work_life_score", TRUE)),
     growth_rate |-> Names(Sorted(careers, "growth_numeric", TRUE)),
     skills_complexity |-> Names(Sorted(careers, "skills_complexity", FALSE))]

_calculate_rankings(careers) ==
    [salary |-> Names(Sorted(careers, "salary_numeric", TRUE)),
     stress_level |-> Names(Sorted(careers, "stress_score", FALSE)),
     work_life_balance |-> Names(Sorted(careers, "work_life_score", TRUE)),
     growth_rate |-> Names(Sorted(careers, "growth_numeric", TRUE)),
     skills_complexity |-> Names(Sorted(careers, "skills_complexity", FALSE))]

\* the career_comparison record of lines 147-179 for a name of the table
career_comparison(self, career_name, region) ==
    LET career_data == self.careers_data[career_name]
        reality_data == DictGet(self.reality_data, career_name, EmptyDict)
        salary == IF region = "india" /\ "india_salary" \in DOMAIN career_data
                  THEN career_data.india_salary
                  ELSE DictGet(career_data, "median_salary", "N/A")
        reality_check == DictGet(reality_data, "reality_check", EmptyDict)
        stress_level == DictGet(reality_check, "stress_level", "Medium")
        work_life_balance == DictGet(reality_check, "work_life_balance", "Moderate")
        skills_count == Len(DictGet(career_data, "required_skills", <<>>))
        skills_complexity == Min(5, Max(1, skills_count \div 2))
    IN  [name |-> career_name,
         salary |-> salary,
         salary_numeric |-> _normalize_salary(salary),
         stress_level |-> stress_level,
         stress_score |-> _get_stress_level_score(stress_level),
         work_life_balance |-> work_life_balance,
         work_life_score |-> _get_work_life_balance_score(work_life_balance),
         growth_rate |-> DictGet(career_data, "growth_rate", "N/A"),
         growth_numeric |-> _extract_growth_rate(DictGet(career_data, "growth_rate", "0%")),
         required_skills |-> DictGet(career_data, "required_skills", <<>>),
         skills_complexity |-> skills_complexity,
         description |-> DictGet(career_data, "description", ""),
         job_outlook |-> DictGet(career_data, "job_outlook", "N/A")]

\* _load_careers_data: the careers of careers.json, then those of
\* careers_india.json laid over them, each if os.path.exists() finds it
NoFile == [exists |-> FALSE, content |-> <<>>]
File(content) == [exists |-> TRUE, content |-> content]

RECURSIVE LoadGlobalCareers(_, _)
LoadGlobalCareers(careers, global_careers) ==
    IF global_careers = <<>> THEN careers
    ELSE LET career == Head(global_careers)
         IN  LoadGlobalCareers(
                 (career.name :> (("region" :> "global") @@ career)) @@ careers,
                 Tail(global_careers))

RECURSIVE LoadIndiaCareers(_, _)
LoadIndiaCareers(careers, india_careers) ==
    IF india_careers = <<>> THEN careers
    ELSE LET career == Head(india_careers)
             career_name == career.name
         IN  LoadIndiaCareers(
                 IF career_name \in DOMAIN careers
                 THEN (career_name :>
                          (("india_salary" :> DictGet(career, "median_salary", "N/A"))
                           @@ ("india_outlook" :> DictGet(career, "job_outlook", "N/A"))
                           @@ careers[career_name])) @@ careers
                 ELSE (career_name :> (("region" :> "india") @@ career)) @@ careers,
                 Tail(india_careers))

_load_careers_data(global_file, india_file) ==
    LoadIndiaCareers(
        LoadGlobalCareers(EmptyDict, IF global_file.exists THEN global_file.content ELSE <<>>),
        IF india_file.exists THEN india_file.content ELSE <<>>)

_load_reality_data(reality_file) ==
    IF reality_file.exists
    THEN DictGet(reality_file.content, "career_reality_data", EmptyDict)
    ELSE EmptyDict

\* __init__
CareerComparison(global_file, india_file, reality_file) ==
    [constructed |-> TRUE,
     careers_data |-> _load_careers_data(global_file, india_file),
     reality_data |-> _load_reality_data(reality_file)]

(***************************************************************************)
(* Comparing careers.  The data directory is read at construction: the     *)
(* files below are one content of it, and it may hold no file at all.      *)
(***************************************************************************)
\* the most career names one call of compare_careers is given
MaxCareerNames == 6

CareersFile ==
    << [name |-> "Software Engineer", median_salary |-> "$110,000",
        growth_rate |-> "22% (much faster than average)",
        required_skills |-> <<"programming", "algorithms", "system_design",
                              "debugging", "testing", "version_control">>,
        description |-> "Builds software", job_outlook |-> "Excellent"],
       [name |-> "Teacher", median_salary |-> "$55,000-$65,000",
        required_skills |-> <<"communication", "patience", "subject_knowledge",
                              "classroom_management">>,
        description |-> "Teaches students"] >>

CareersIndiaFile ==
    << [name |-> "Software Engineer", median_salary |-> RupeeSign \o "12 lakh",
        job_outlook |-> "Very good"],
       [name |-> "Chartered Accountant", median_salary |-> "8.5 lakh",
        growth_rate |-> "7.5%",
        required_skills |-> <<"accounting", "taxation", "auditing", "law">>,
        description |-> "Audits accounts", job_outlook |-> "Stable"] >>

CareerRealityFile ==
    [career_reality_data |->
        ("Software Engineer" :>
            [reality_check |-> [stress_level |-> "Medium-High",
                                work_life_balance |-> "Good, with flexible hours"]])
        @@ ("Chartered Accountant" :>
            [reality_check |-> [stress_level |-> "High",
                                work_life_balance |-> "Demanding in audit season"]]),
     general_insights |-> [success_factors |-> <<"Persistence", "Continuous learning">>]]

DataDirectories ==
    { [careers |-> File(CareersFile), careers_india |-> File(CareersIndiaFile),
       career_reality_check |-> File(CareerRealityFile)],
      [careers |-> NoFile, careers_india |-> NoFile, career_reality_check |-> NoFile] }

Regions == {"global", "india"}
CareerNames == {"Software Engineer", "Teacher", "Chartered Accountant", "Astronaut"}

\* career_comparison is pure: its value on the tables, names and regions of
\* this specification, computed once
ComparisonRowMemo ==
    [self \in {CareerComparison(dir.careers, dir.careers_india, dir.career_reality_check) :
                  dir \in DataDirectories},
     career_name \in CareerNames, region \in Regions |->
        IF career_name \in DOMAIN self.careers_data
        THEN career_comparison(self, career_name, region)
        ELSE None]

ComparisonRow(self, career_name, region) == ComparisonRowMemo[self, career_name, region]

\* compare_careers rejecting more than 6 names instead of more than 5
compare_careers_maximum_six(self, career_names, region) ==
    IF Len(career_names) < 2
    THEN [error |-> "Please select at least 2 careers to compare"]
    ELSE IF Len(career_names) > 6
    THEN [error |-> "Maximum 5 careers can be compared at once"]
    ELSE LET known == SelectSeq(career_names,
                          LAMBDA career_name : career_name \in DOMAIN self.careers_data)
             careers == [i \in 1..Len(known) |-> ComparisonRow(self, known[i], region)]
         IN  [careers |-> careers,
              comparison_metrics |->
                  [salary |-> EmptyDict, stress_level |-> EmptyDict,
                   work_life_balance |-> EmptyDict, growth_rate |-> EmptyDict,
                   skills_complexity |-> EmptyDict],
              region |-> region,
              rankings |-> _calculate_rankings(careers)]

\* a name that is not a key of careers_data is passed over (lines 144-145)
compare_careers(self, career_names, region) ==
    IF Len(career_names) < 2
    THEN [error |-> "Please select at least 2 careers to compare"]
    ELSE IF Len(career_names) > 5
    THEN [error |-> "Maximum 5 careers can be compared at once"]
    ELSE LET known == SelectSeq(career_names,
                          LAMBDA career_name : career_name \in DOMAIN self.careers_data)
             careers == [i \in 1..Len(known) |-> ComparisonRow(self, known[i], region)]
         IN  [careers |-> careers,
              comparison_metrics |->
                  [salary |-> EmptyDict, stress_level |-> EmptyDict,
                   work_life_balance |-> EmptyDict, growth_rate |-> EmptyDict,
                   skills_complexity |-> EmptyDict],
              region |-> region,
              rankings |-> _calculate_rankings(careers)]

InitCompare ==
    /\ matcher = NotConstructed
    /\ analyzer = NotConstructed
    /\ \E dir \in DataDirectories :
         comparison = CareerComparison(dir.careers, dir.careers_india,
                                       dir.career_reality_check)
    /\ simulation = NotConstructed
    /\ personality_test = NotConstructed
    /\ role_model_service = NotConstructed
    /\ warning_system = NotConstructed
    /\ process = NotStarted
    /\ call = NoCall
    /\ ret = None

CompareCareers ==
    /\ call = NoCall
    /\ \E career_names \in SeqsUpTo(CareerNames, MaxCareerNames), region \in Regions :
         /\ call' = [op |-> "compare_careers", career_names |-> career_names,
                     region |-> region]
         /\ ret' = compare_careers(comparison, career_names, region)
    /\ UNCHANGED <<components, process>>

NextCompare == CompareCareers \/ Return

SpecCompare == InitCompare /\ [][NextCompare]_vars

\* C6: compare_careers given fewer than 2 or more than 5 names returns a record
\* with an error field and neither careers nor rankings; given 2 to 5 names it
\* returns a record with careers and rankings and no error field.
C6_ErrorOutsideTwoToFive ==
    call.op = "compare_careers" =>
        IF Len(call.career_names) < 2 \/ Len(call.career_names) > 5
        THEN /\ "error" \in DOMAIN ret
             /\ "careers" \notin DOMAIN ret
             /\ "rankings" \notin DOMAIN ret
        ELSE /\ "careers" \in DOMAIN ret
             /\ "rankings" \in DOMAIN ret
             /\ "error" \notin DOMAIN ret

C6_Witness ==
    /\ call.op = "compare_careers"
    /\ Len(call.career_names) = 6
    /\ "error" \in DOMAIN ret

RankingMetrics ==
    {"salary", "stress_level", "work_life_balance", "growth_rate", "skills_complexity"}

Count(seq, x) == Cardinality({i \in 1..Len(seq) : seq[i] = x})
IsPermutation(a, b) ==
    /\ Len(a) = Len(b)
    /\ \A x \in Range(a) \cup Range(b) : Count(a, x) = Count(b, x)

\* C7: for every 2 to 5 career names given to compare_careers, names that are
\* not in the loaded table included, each of the five ranking lists is a
\* permutation of the given names.
C7_RankingsPermuteInput ==
    (call.op = "compare_careers" /\ Len(call.career_names) \in 2..5) =>
        \A metric \in RankingMetrics :
            IsPermutation(ret.rankings[metric], call.career_names)

(***************************************************************************)
(* Normalising salaries.  A quote is a salary as a data file writes it: a  *)
(* currency symbol, one amount or a low-high range, and "lakh" or not.     *)
(* value10 is ten times the number the text writes.                        *)
(***************************************************************************)
CurrencySymbols == {"", "$", RupeeSign, MisdecodedRupee}

PlainAmounts ==
    { [text |-> "50,000", value10 |-> 500000], [text |-> "70,000", value10 |-> 700000],
      [text |-> "110000", value10 |-> 1100000], [text |-> "8,00,000", value10 |-> 8000000],
      [text |-> "45000.5", value10 |-> 450005] }

LakhAmounts ==
    { [text |-> "12", value10 |-> 120], [text |-> "8.5", value10 |-> 85],
      [text |-> "20", value10 |-> 200] }

UnparsableSalaries == {"N/A", "", "Negotiable", "Competitive"}

SalaryQuotes ==
    [form : {"plain"}, currency : CurrencySymbols, amount : PlainAmounts]
    \cup [form : {"lakh"}, currency : CurrencySymbols, amount : LakhAmounts,
          unit : {" lakh", " Lakh"}]
    \cup [form : {"range"}, currency : CurrencySymbols, low : PlainAmounts,
          high : PlainAmounts, dash : {"-", " - "}]
    \cup [form : {"unparsable"}, text : UnparsableSalaries]

\* the salary string of a quote
SalaryString(q) ==
    CASE q.form = "plain" -> q.currency \o q.amount.text
      [] q.form = "lakh"  -> q.currency \o q.amount.text \o q.unit
      [] q.form = "range" -> q.currency \o q.low.text \o q.dash \o q.currency \o q.high.text
      [] q.form = "unparsable" -> q.text

InitSalary == InitCompare

NormalizeSalary ==
    /\ call = NoCall
    /\ \E q \in SalaryQuotes :
         /\ call' = [op |-> "_normalize_salary", salary_str |-> SalaryString(q)]
         /\ ret' = _normalize_salary(SalaryString(q))
    /\ UNCHANGED <<components, process>>

NextSalary == NormalizeSalary \/ Return

SpecSalary == InitSalary /\ [][NextSalary]_vars

\* the value the claim gives a quote
ClaimedSalary(q) ==
    CASE q.form = "plain" -> q.amount.value10 \div 10
      [] q.form = "lakh"  -> q.amount.value10 * 10000
      [] q.form = "range" -> (q.low.value10 + q.high.value10) \div 20
      [] q.form = "unparsable" -> 0

\* C8: _normalize_salary strips "$", the rupee sign, commas and spaces, then
\* returns the integer average of the bounds of a range, the number times
\* 100,000 for lakh notation, the integer value of a plain number and 0 for an
\* unparsable string; "$50,000-$70,000" gives 60000, "12 lakh" gives 1200000
\* and "N/A" gives 0.
C8_NormalizeSalaryAsClaimed ==
    call.op = "_normalize_salary" =>
        /\ \A q \in SalaryQuotes :
              (q.form # "unparsable" => q.currency \in {"", "$", RupeeSign})
              /\ SalaryString(q) = call.salary_str
              => ret = ClaimedSalary(q)
        /\ call.salary_str = "$50,000-$70,000" => ret = 60000
        /\ call.salary_str = "12 lakh" => ret = 1200000
        /\ call.salary_str = "N/A" => ret = 0

(***************************************************************************)
(* CareerSimulation.  A call either returns a value or raises: nothing in  *)
(* the class catches an exception.                                         *)
(***************************************************************************)
Returned(value) == [raised |-> None, value |-> value]
Raised(exception) == [raised |-> exception]

\* sum(f(task) for task in schedule)
RECURSIVE SumOver(_, _)
SumOver(schedule, f) ==
    IF schedule = <<>> THEN 0
    ELSE f[Head(schedule)] + SumOver(Tail(schedule), f)

_find_peak_stress_time(schedule) ==
    LET RECURSIVE Scan(_, _)
        Scan(peak, rest) ==
            IF rest = <<>> THEN peak
            ELSE LET task == Head(rest)
                 IN  Scan(IF task.stress_level > peak.stress_level
                          THEN [time |-> task.time, task |-> task.task,
                                stress_level |-> task.stress_level]
                          ELSE peak,
                          Tail(rest))
    IN  Scan([time |-> None, task |-> None, stress_level |-> 0], schedule)

\* a histogram that gets a key when the first task of that level is counted
RECURSIVE _calculate_stress_distribution_keys_on_demand(_)
_calculate_stress_distribution_keys_on_demand(schedule) ==
    IF schedule = <<>> THEN Returned(EmptyDict)
    ELSE LET distribution ==
                 _calculate_stress_distribution_keys_on_demand(
                     SubSeq(schedule, 1, Len(schedule) - 1)).value
             stress_level == schedule[Len(schedule)].stress_level
         IN  Returned((stress_level :> (DictGet(distribution, stress_level, 0) + 1))
                      @@ distribution)

\* distribution[stress_level] += 1 of line 74: KeyError for a stress_level that
\* is not a key of distribution
CountedStressLevel(distribution, stress_level) ==
    IF distribution.raised # None THEN distribution
    ELSE IF stress_level \notin DOMAIN distribution.value THEN Raised("KeyError")
    ELSE Returned([distribution.value EXCEPT ![stress_level] = @ + 1])

\* distribution[stress_level] += 1 for each task, from {1: 0, ..., 5: 0}
RECURSIVE _calculate_stress_distribution(_)
_calculate_stress_distribution(schedule) ==
    IF schedule = <<>> THEN Returned([stress_level \in 1..5 |-> 0])
    ELSE CountedStressLevel(
             _calculate_stress_distribution(SubSeq(schedule, 1, Len(schedule) - 1)),
             schedule[Len(schedule)].stress_level)

\* high_stress_tasks / total_tasks divides by len(schedule): ZeroDivisionError
\* for an empty schedule
_calculate_work_life_balance_score(schedule) ==
    LET high_stress_tasks == Cardinality({i \in DOMAIN schedule : schedule[i].stress_level >= 4})
        total_tasks == Len(schedule)
        break_tasks == Cardinality({i \in DOMAIN schedule : schedule[i].stress_level <= 1})
    IN  IF total_tasks = 0 THEN Raised("ZeroDivisionError")
        ELSE IF FLt(PyFloat(<<4, 10>>), FDivNat(high_stress_tasks, total_tasks)) THEN Returned(2)
        ELSE IF FLt(PyFloat(<<2, 10>>), FDivNat(high_stress_tasks, total_tasks)) THEN Returned(3)
        ELSE IF FLt(PyFloat(<<2, 10>>), FDivNat(break_tasks, total_tasks)) THEN Returned(4)
        ELSE Returned(3)

\* the longest run of minutes of consecutive tasks of stress 2 or more
max_continuous_work(schedule) ==
    LET RECURSIVE Scan(_, _, _)
        Scan(longest, current, rest) ==
            IF rest = <<>> THEN longest
            ELSE IF Head(rest).stress_level >= 2
            THEN Scan(Max(longest, current + Head(rest).duration),
                      current + Head(rest).duration, Tail(rest))
            ELSE Scan(longest, 0, Tail(rest))
    IN  Scan(0, 0, schedule)

\* average_intensity is held in hundredths: round(avg_intensity, 2) * 100
_calculate_work_intensity(schedule) ==
    LET total_duration == SumOver(schedule, [task \in Range(schedule) |-> task.duration])
        total_stress_weighted_time ==
            SumOver(schedule, [task \in Range(schedule) |-> task.duration * task.stress_level])
        average_intensity_hundredths ==
            IF total_duration > 0
            THEN FRoundDigits(FDivNat(total_stress_weighted_time, total_duration), 2)
            ELSE 0
        intensity(work_life_balance_score) ==
            IF work_life_balance_score.raised # None THEN work_life_balance_score
            ELSE Returned([total_work_minutes |-> total_duration,
                           average_intensity_hundredths |-> average_intensity_hundredths,
                           max_continuous_work_minutes |-> max_continuous_work(schedule),
                           work_life_balance_score |-> work_life_balance_score.value])
    IN  intensity(_calculate_work_life_balance_score(schedule))

\* the items of simulations[career_name].copy() after the overrides of the
\* region.  Line 39 reads simulation['salary_range'], the default of get(),
\* before it calls get(): without that key it raises KeyError whether or not
\* region_data holds 'salary'.
RegionSpecific(loaded, region) ==
    IF "region_specific" \in DOMAIN loaded /\ region \in DOMAIN loaded.region_specific
    THEN IF "salary_range" \notin DOMAIN loaded THEN Raised("KeyError")
         ELSE Returned(
                  ("salary_range" :>
                      DictGet(loaded.region_specific[region], "salary", loaded.salary_range))
                  @@ ("work_culture" :>
                      DictGet(loaded.region_specific[region], "work_culture",
                              "Standard work culture"))
                  @@ loaded)
    ELSE Returned(loaded)

get_career_simulation(self, career_name, region) ==
    LET simulations == DictGet(self.simulations_data, "career_simulations", EmptyDict)
        enhanced(copy, stress_distribution, work_intensity) ==
            IF stress_distribution.raised # None THEN stress_distribution
            ELSE IF work_intensity.raised # None THEN work_intensity
            ELSE Returned(
                ("total_tasks" :> Len(copy.daily_schedule))
                @@ ("peak_stress_time" :> _find_peak_stress_time(copy.daily_schedule))
                @@ ("stress_distribution" :> stress_distribution.value)
                @@ ("work_intensity" :> work_intensity.value)
                @@ copy)
        simulate(copy) ==
            IF "daily_schedule" \notin DOMAIN copy THEN Raised("KeyError")
            ELSE enhanced(copy, _calculate_stress_distribution(copy.daily_schedule),
                          _calculate_work_intensity(copy.daily_schedule))
        of_region(regional) ==
            IF regional.raised # None THEN regional ELSE simulate(regional.value)
    IN  IF career_name \notin DOMAIN simulations
        THEN Returned([error |-> "Simulation not available for " \o career_name])
        ELSE of_region(RegionSpecific(simulations[career_name], region))

\* `simulation` of line 34 names the table's own dict
simulation_object_is_the_entry == "entry"

\* `simulation` of line 34 names a new dict, made by .copy() of the table's
simulation_object == "copy"

\* self.simulations_data once get_career_simulation has ended with result: the
\* assignments of lines 39-46 go to the dict that `simulation` names; when
\* line 39 raised, none was made, when line 42 raised, those of lines 39-40,
\* when line 45 raised, those of lines 39-44, and when line 46 raised, those
\* of lines 39-45
simulations_data_written(self, career_name, region, result) ==
    LET simulations == DictGet(self.simulations_data, "career_simulations", EmptyDict)
        with_distribution(copy, stress_distribution) ==
            IF stress_distribution.raised # None THEN copy
            ELSE ("stress_distribution" :> stress_distribution.value) @@ copy
        before_raise(copy) ==
            ("total_tasks" :> Len(copy.daily_schedule))
            @@ ("peak_stress_time" :> _find_peak_stress_time(copy.daily_schedule))
            @@ with_distribution(copy, _calculate_stress_distribution(copy.daily_schedule))
        until_raise(regional) ==
            IF regional.raised # None THEN simulations[career_name]
            ELSE IF "daily_schedule" \notin DOMAIN regional.value THEN regional.value
            ELSE before_raise(regional.value)
        written == IF result.raised = None THEN result.value
                   ELSE until_raise(RegionSpecific(simulations[career_name], region))
    IN  IF career_name \notin DOMAIN simulations \/ simulation_object = "copy"
        THEN self.simulations_data
        ELSE ("career_simulations" :> ((career_name :> written) @@ simulations))
             @@ self.simulations_data

\* self once a call of get_career_simulation has been made
AfterSimulation(self, career_name, region) ==
    [self EXCEPT !.simulations_data =
        simulations_data_written(self, career_name, region,
                                 get_career_simulation(self, career_name, region))]

\* json.load of career_simulations.json if os.path.exists() finds it
_load_simulations_data(simulations_file) ==
    IF simulations_file.exists THEN simulations_file.content ELSE EmptyDict

\* __init__
CareerSimulation(simulations_file) ==
    [constructed |-> TRUE, simulations_data |-> _load_simulations_data(simulations_file)]

(***************************************************************************)
(* Simulating a career.  career_simulations.json holds one career, whose   *)
(* daily schedule is any sequence of at most MaxTasks of the tasks below,  *)
(* or the file does not exist.  One task has a stress level off the scale  *)
(* of 1 to 5.  The career of a file may lack its salary_range; then its    *)
(* day has one task at most.                                               *)
(***************************************************************************)
\* the most tasks in a daily schedule
MaxTasks == 3

TaskKinds ==
    { [task |-> "Coffee break", duration |-> 0, stress_level |-> 1],
      [task |-> "Email", duration |-> 30, stress_level |-> 1],
      [task |-> "Planning", duration |-> 30, stress_level |-> 2],
      [task |-> "Coding", duration |-> 45, stress_level |-> 2],
      [task |-> "Code review", duration |-> 30, stress_level |-> 3],
      [task |-> "Client meeting", duration |-> 30, stress_level |-> 4],
      [task |-> "Status call", duration |-> 0, stress_level |-> 4],
      [task |-> "Production incident", duration |-> 45, stress_level |-> 5],
      [task |-> "Release", duration |-> 30, stress_level |-> 5],
      [task |-> "Outage", duration |-> 30, stress_level |-> 6] }

\* the time of the i-th task of a day
TimeOfTask(i) == <<"8", "9", "10", "11", "12", "13", "14", "15", "16", "17">>[i] \o ":00"

Schedules ==
    { [i \in 1..Len(kinds) |->
          [time |-> TimeOfTask(i), task |-> kinds[i].task,
           duration |-> kinds[i].duration, stress_level |-> kinds[i].stress_level,
           description |-> "About " \o kinds[i].task]] :
      kinds \in SeqsUpTo(TaskKinds, MaxTasks) }

SimulationsFile(daily_schedule) ==
    [simulation_metadata |->
        [stress_scale |-> [low |-> "1-2", medium |-> "3", high |-> "4-5"]],
     career_simulations |->
        ("Software Engineer" :>
            [career_title |-> "Software Engineer",
             overview |-> "Designs, builds and maintains software",
             daily_schedule |-> daily_schedule,
             salary_range |-> "$80,000-$150,000",
             working_hours |-> [total_hours |-> 8],
             average_stress_level |-> 3,
             work_life_balance |-> "Good",
             stress_factors |-> <<"Deadlines", "On-call duty", "Changing requirements",
                                  "Technical debt">>,
             rewards |-> <<"Problem solving", "Good pay">>,
             education_required |-> "Bachelor's degree in Computer Science",
             region_specific |->
                 [india |-> [salary |-> "6-25 lakh", work_culture |-> "Long hours"]]])]

\* the file whose career holds no salary_range
SimulationsFileWithoutSalaryRange(daily_schedule) ==
    [SimulationsFile(daily_schedule) EXCEPT
        !.career_simulations["Software Engineer"] =
            [key \in DOMAIN @ \ {"salary_range"} |-> @[key]]]

SimulatedCareerNames == {"Software Engineer", "software engineer", "Astronaut"}

InitSim ==
    /\ matcher = NotConstructed
    /\ analyzer = NotConstructed
    /\ comparison = NotConstructed
    /\ \/ \E daily_schedule \in Schedules :
            simulation = CareerSimulation(File(SimulationsFile(daily_schedule)))
       \/ \E daily_schedule \in {schedule \in Schedules : Len(schedule) <= 1} :
            simulation =
                CareerSimulation(File(SimulationsFileWithoutSalaryRange(daily_schedule)))
       \/ simulation = CareerSimulation(NoFile)
    /\ personality_test = NotConstructed
    /\ role_model_service = NotConstructed
    /\ warning_system = NotConstructed
    /\ process = NotStarted
    /\ call = NoCall
    /\ ret = None

\* the daily schedules of the loaded table
LoadedSchedules ==
    LET simulations == DictGet(simulation.simulations_data, "career_simulations", EmptyDict)
    IN  {simulations[career_name].daily_schedule : career_name \in DOMAIN simulations}

GetCareerSimulation ==
    /\ call = NoCall
    /\ \E career_name \in SimulatedCareerNames, region \in Regions :
         /\ call' = [op |-> "get_career_simulation", career_name |-> career_name,
                     region |-> region]
         /\ ret' = get_career_simulation(simulation, career_name, region)
         /\ simulation' = [simulation EXCEPT !.simulations_data =
                               simulations_data_written(simulation, career_name, region, ret')]
    /\ UNCHANGED <<matcher, analyzer, comparison, personality_test, role_model_service,
                   warning_system, process>>

CalculateStressDistribution ==
    /\ call = NoCall
    /\ \E schedule \in LoadedSchedules :
         /\ call' = [op |-> "_calculate_stress_distribution", schedule |-> schedule]
         /\ ret' = _calculate_stress_distribution(schedule)
    /\ UNCHANGED <<components, process>>

CalculateWorkIntensity ==
    /\ call = NoCall
    /\ \E schedule \in LoadedSchedules :
         /\ call' = [op |-> "_calculate_work_intensity", schedule |-> schedule]
         /\ ret' = _calculate_work_intensity(schedule)
    /\ UNCHANGED <<components, process>>

NextSim ==
    \/ GetCareerSimulation
    \/ CalculateStressDistribution
    \/ CalculateWorkIntensity
    \/ Return

SpecSim == InitSim /\ [][NextSim]_vars

\* the minutes and the stress-weighted minutes of a schedule
TotalDuration(schedule) ==
    SumOver(schedule, [task \in Range(schedule) |-> task.duration])
WeightedDuration(schedule) ==
    SumOver(schedule, [task \in Range(schedule) |-> task.duration * task.stress_level])

\* h hundredths is n / d rounded to two decimals
RoundsToHundredths(h, n, d) ==
    /\ 2 * (100 * n - h * d) <= d
    /\ 2 * (h * d - 100 * n) <= d

\* C9: for every schedule of positive total duration _calculate_work_intensity
\* returns average_intensity = sum(duration * stress) / sum(duration) rounded
\* to two decimals, and for a total duration of 0 it returns average_intensity
\* 0 without failing.
C9_AverageIntensityAsClaimed ==
    call.op = "_calculate_work_intensity" =>
        /\ ret.raised = None
        /\ IF TotalDuration(call.schedule) > 0
           THEN RoundsToHundredths(ret.value.average_intensity_hundredths,
                                   WeightedDuration(call.schedule),
                                   TotalDuration(call.schedule))
           ELSE ret.value.average_intensity_hundredths = 0

\* the schedule whose histogram the last call returned, and the histogram
HistogramCall ==
    \/ /\ call.op = "_calculate_stress_distribution"
       /\ ret.raised = None
    \/ /\ call.op = "get_career_simulation"
       /\ ret.raised = None
       /\ "error" \notin DOMAIN ret.value
HistogramSchedule ==
    IF call.op = "_calculate_stress_distribution" THEN call.schedule
    ELSE ret.value.daily_schedule
Histogram ==
    IF call.op = "_calculate_stress_distribution" THEN ret.value
    ELSE ret.value.stress_distribution

\* every task of the schedule has a stress level on the scale
StressOnScale(schedule) ==
    \A i \in DOMAIN schedule : schedule[i].stress_level \in 1..5

\* C10: for every schedule of tasks of stress 1..5 the stress_distribution that
\* _calculate_stress_distribution and get_career_simulation return has exactly
\* the keys 1..5, each entry is the number of tasks of that stress level, and
\* the entries add up to the number of tasks, which is total_tasks.
C10_StressHistogram ==
    /\ (call.op = "_calculate_stress_distribution" /\ StressOnScale(call.schedule))
          => ret.raised = None
    /\ HistogramCall =>
        /\ DOMAIN Histogram = 1..5
        /\ \A level \in 1..5 :
              Histogram[level] =
                  Cardinality({i \in DOMAIN HistogramSchedule :
                                  HistogramSchedule[i].stress_level = level})
        /\ Histogram[1] + Histogram[2] + Histogram[3] + Histogram[4] + Histogram[5]
              = Len(HistogramSchedule)
        /\ call.op = "get_career_simulation" =>
              ret.value.total_tasks = Len(HistogramSchedule)

C10_Witness ==
    /\ call.op = "get_career_simulation"
    /\ ret.raised = None
    /\ "error" \notin DOMAIN ret.value
    /\ ret.value.total_tasks = 3
    /\ ret.value.stress_distribution[5] = 2
    /\ ret.value.stress_distribution[1] = 1



\* ---------------------------------------------------------------------------
\* PersonalityTest (src/recommender/personality_test.py)
\* ---------------------------------------------------------------------------

\* the twelve questions; the question text plays no part in the scoring
Question(id, dimension) == [id |-> id, dimension |-> dimension, weight |-> 1]

_load_questions ==
    << Question(1, "extraversion"), Question(2, "extraversion"),
       Question(3, "sensing"), Question(4, "sensing"),
       Question(5, "thinking"), Question(6, "thinking"),
       Question(7, "judging"), Question(8, "judging"),
       Question(9, "extraversion"), Question(10, "intuition"),
       Question(11, "feeling"), Question(12, "perceiving") >>

_load_personality_types ==
    [ INTJ |-> [name |-> "The Architect",
                traits |-> <<"analytical", "strategic", "independent">>,
                careers |-> <<"Software Engineer", "Data Scientist", "Research Scientist">>,
                description |-> "Strategic thinkers who love complex problems"],
      ENFP |-> [name |-> "The Campaigner",
                traits |-> <<"creative", "enthusiastic", "collaborative">>,
                careers |-> <<"UX Designer", "Marketing Manager", "Teacher">>,
                description |-> "Creative and enthusiastic people-focused individuals"],
      ISTJ |-> [name |-> "The Logistician",
                traits |-> <<"detail_oriented", "organized", "reliable">>,
                careers |-> <<"Accountant", "Project Manager", "Engineer">>,
                description |-> "Practical and fact-minded, reliable individuals"],
      ESTP |-> [name |-> "The Entrepreneur",
                traits |-> <<"outgoing", "adaptable", "practical">>,
                careers |-> <<"Sales Manager", "Marketing Manager", "Consultant">>,
                description |-> "Energetic and adaptable, great at improvising"] ]

PersonalityTest ==
    [constructed |-> TRUE, questions |-> _load_questions,
     personality_types |-> _load_personality_types]

_get_opposite_dimension(dimension) ==
    LET opposites == [extraversion |-> "introversion", sensing |-> "intuition",
                      thinking |-> "feeling", judging |-> "perceiving"]
    IN  DictGet(opposites, dimension, dimension)

\* every dimension is a dimension whose answers are scored
every_dimension_is_scored ==
    {"extraversion", "introversion", "sensing", "intuition", "thinking", "feeling",
     "judging", "perceiving"}

\* the dimensions whose answers are scored: the list of line 140
ScoredDimensions == {"extraversion", "sensing", "thinking", "judging"}

\* the mutant of calculate_personality: a tie takes the first letter of the pair
calculate_personality_tie_takes_first(self, answers) ==
    LET zero == [extraversion |-> 0, introversion |-> 0, sensing |-> 0, intuition |-> 0,
                 thinking |-> 0, feeling |-> 0, judging |-> 0, perceiving |-> 0]
        RECURSIVE Loop(_, _)
        Loop(i, scores) ==
            IF i > Len(answers) THEN scores
            ELSE IF i <= Len(self.questions)
                    /\ self.questions[i].dimension
                         \in {"extraversion", "sensing", "thinking", "judging"}
                 THEN LET dimension == self.questions[i].dimension
                          weight == self.questions[i].weight
                          opposite == _get_opposite_dimension(dimension)
                          added == [scores EXCEPT ![dimension] = @ + answers[i] * weight]
                      IN  Loop(i + 1, [added EXCEPT ![opposite] = @ + (6 - answers[i]) * weight])
                 ELSE Loop(i + 1, scores)
        scores == Loop(1, zero)
        personality_type ==
            (IF scores.extraversion >= scores.introversion THEN "E" ELSE "I")
            \o (IF scores.sensing >= scores.intuition THEN "S" ELSE "N")
            \o (IF scores.thinking >= scores.feeling THEN "T" ELSE "F")
            \o (IF scores.judging >= scores.perceiving THEN "J" ELSE "P")
        type_info == DictGet(self.personality_types, personality_type,
                             [name |-> "Unique Type",
                              traits |-> <<"unique", "individual">>,
                              careers |-> <<"Various careers">>,
                              description |-> "A unique personality combination"])
    IN  Returned([type |-> personality_type,
                  name |-> type_info.name,
                  traits |-> type_info.traits,
                  suggested_careers |-> type_info.careers,
                  description |-> type_info.description,
                  scores |-> scores])

\* calculate_personality: the answers beyond the questions are skipped, and so
\* are the answers to the questions of the four second-letter dimensions
calculate_personality(self, answers) ==
    LET zero == [extraversion |-> 0, introversion |-> 0, sensing |-> 0, intuition |-> 0,
                 thinking |-> 0, feeling |-> 0, judging |-> 0, perceiving |-> 0]
        RECURSIVE Loop(_, _)
        Loop(i, scores) ==
            IF i > Len(answers) THEN scores
            ELSE IF i <= Len(self.questions)
                    /\ self.questions[i].dimension
                         \in ScoredDimensions
                 THEN LET dimension == self.questions[i].dimension
                          weight == self.questions[i].weight
                          opposite == _get_opposite_dimension(dimension)
                          added == [scores EXCEPT ![dimension] = @ + answers[i] * weight]
                      IN  Loop(i + 1, [added EXCEPT ![opposite] = @ + (6 - answers[i]) * weight])
                 ELSE Loop(i + 1, scores)
        scores == Loop(1, zero)
        personality_type ==
            (IF scores.extraversion > scores.introversion THEN "E" ELSE "I")
            \o (IF scores.sensing > scores.intuition THEN "S" ELSE "N")
            \o (IF scores.thinking > scores.feeling THEN "T" ELSE "F")
            \o (IF scores.judging > scores.perceiving THEN "J" ELSE "P")
        type_info == DictGet(self.personality_types, personality_type,
                             [name |-> "Unique Type",
                              traits |-> <<"unique", "individual">>,
                              careers |-> <<"Various careers">>,
                              description |-> "A unique personality combination"])
    IN  Returned([type |-> personality_type,
                  name |-> type_info.name,
                  traits |-> type_info.traits,
                  suggested_careers |-> type_info.careers,
                  description |-> type_info.description,
                  scores |-> scores])

\* how many answers of a sheet differ from the neutral answer
MaxChangedAnswers == 2

NeutralAnswer == 3
AnswerScale == 1..5
QuestionCount == Len(_load_questions)

\* the answers of src/demo.py
DemoAnswers == <<4, 3, 2, 4, 5, 4, 3, 4, 5, 2, 3, 4>>

\* the sheets of twelve answers on the scale with few answers off neutral
AnswerSheets ==
    {DemoAnswers} \cup
    UNION { { [i \in 1..QuestionCount |-> IF i \in changed THEN to[i] ELSE NeutralAnswer] :
                to \in [changed -> AnswerScale \ {NeutralAnswer}] } :
            changed \in {c \in SUBSET (1..QuestionCount) :
                           Cardinality(c) <= MaxChangedAnswers} }

InitPersonality ==
    /\ matcher = NotConstructed
    /\ analyzer = NotConstructed
    /\ comparison = NotConstructed
    /\ simulation = NotConstructed
    /\ personality_test = PersonalityTest
    /\ role_model_service = NotConstructed
    /\ warning_system = NotConstructed
    /\ process = NotStarted
    /\ call = NoCall
    /\ ret = None

CalculatePersonality ==
    /\ call = NoCall
    /\ \E answers \in AnswerSheets :
         /\ call' = [op |-> "calculate_personality", answers |-> answers]
         /\ ret' = calculate_personality(personality_test, answers)
    /\ UNCHANGED <<components, process>>

NextPersonality == CalculatePersonality \/ Return

SpecPersonality == InitPersonality /\ [][NextPersonality]_vars

\* the two letters and the two dimensions of each position of the code
LetterPairs ==
    << [first |-> "E", second |-> "I", dimension |-> "extraversion"],
       [first |-> "S", second |-> "N", dimension |-> "sensing"],
       [first |-> "T", second |-> "F", dimension |-> "thinking"],
       [first |-> "J", second |-> "P", dimension |-> "judging"] >>

\* C11: calculate_personality on twelve answers in 1..5 returns normally with
\* a code of four letters; letter i is the first letter of pair i when the
\* returned score of the pair's first dimension is strictly greater than the
\* score of its opposite and the second letter otherwise; twelve neutral
\* answers give INFP
C11_PersonalityCode ==
    call.op = "calculate_personality" =>
        /\ ret.raised = None
        /\ Len(ret.value.type) = Len(LetterPairs)
        /\ \A i \in 1..Len(LetterPairs) :
             LET pair == LetterPairs[i]
                 scores == ret.value.scores
             IN  SubSeq(ret.value.type, i, i) =
                   IF scores[pair.dimension] > scores[_get_opposite_dimension(pair.dimension)]
                   THEN pair.first ELSE pair.second
        /\ (\A i \in 1..QuestionCount : call.answers[i] = NeutralAnswer)
             => ret.value.type = "INFP"

\* twelve neutral answers were scored: every pair ties
C11_Witness ==
    /\ call.op = "calculate_personality"
    /\ \A i \in 1..QuestionCount : call.answers[i] = NeutralAnswer
    /\ \A i \in 1..Len(LetterPairs) :
         ret.value.scores[LetterPairs[i].dimension]
           = ret.value.scores[_get_opposite_dimension(LetterPairs[i].dimension)]
    /\ ret.value.type = "INFP"


\* ---------------------------------------------------------------------------
\* RoleModelService.get_daily_tip (src/recommender/role_model_service.py)
\* ---------------------------------------------------------------------------

\* a tip of data/career_tips.json: its category and the careers it is for
Tip(id, category, career_focus) ==
    [id |-> id, category |-> category, career_focus |-> career_focus]

TipPool ==
    { Tip(1, "skill_development", <<"Software Engineer">>),
      Tip(2, "networking", <<"All careers">>),
      Tip(3, "career_advancement", <<"Teacher", "Software Engineer">>),
      Tip(4, "motivation", <<"All careers">>) }

\* the length of the tip table
MaxTips == 2

\* the contents data/career_tips.json can have, and the absent file
CareerTipsFiles == {NoFile} \cup {File(tips) : tips \in DistinctSeqsUpTo(TipPool, MaxTips)}

\* _load_career_tips: FileNotFoundError gives the empty list
_load_career_tips(tips_file) == IF tips_file.exists THEN tips_file.content ELSE <<>>

\* _load_role_models: role_models_file is data/role_models_india.json for the
\* region india and data/role_models.json for any other
_load_role_models(role_models_file) ==
    IF role_models_file.exists THEN role_models_file.content ELSE <<>>

RoleModelService(region, role_models_file, tips_file) ==
    [constructed |-> TRUE, region |-> region,
     role_models |-> _load_role_models(role_models_file),
     career_tips |-> _load_career_tips(tips_file)]

\* the user_id values of a call: absent, empty, the route's default, a user
UserIds == {None, "", "anonymous", "alice"}
\* the truth value of a Python string or None
Truthy(s) == s # None /\ s # ""

\* the dates datetime.now().strftime('%Y-%m-%d') gives on two days
Dates == <<"2026-10-29", "2026-10-30">>

\* the strings get_daily_tip hashes
HashedStrings == {user_id \o "_" \o Dates[d] : user_id \in {u \in UserIds : Truthy(u)},
                                               d \in DOMAIN Dates}

\* hash() of a str is salted with a secret drawn at interpreter start
\* (PYTHONHASHSEED unset): a process is one function from strings to hash
\* values, of which two residues are kept here
HashValues == {0, 1}
StrHashes == [HashedStrings -> HashValues]

Processes == [started : {TRUE}, str_hash : StrHashes, day : DOMAIN Dates]

InList(x, list) == \E i \in DOMAIN list : list[i] = x

\* get_daily_tip: the set of outcomes of one call in the process proc
\* (random.choice may return any of the relevant tips)
get_daily_tip(self, career_focus, user_id, mode, proc) ==
    LET for_focus(tip) == InList(career_focus, tip.career_focus)
                          \/ InList("All careers", tip.career_focus)
        by_focus == IF Truthy(career_focus)
                    THEN SelectSeq(self.career_tips, for_focus)
                    ELSE self.career_tips
        professional_categories ==
            <<"career_advancement", "leadership", "industry_transition", "networking">>
        for_mode(tip) == InList(tip.category, professional_categories)
        relevant_tips == IF mode = "professional" THEN SelectSeq(by_focus, for_mode)
                         ELSE by_focus
    IN  IF Truthy(user_id)
        THEN LET today == Dates[proc.day]
             IN  IF Len(relevant_tips) = 0 THEN {Raised("ZeroDivisionError")}
                 ELSE LET seed == proc.str_hash[user_id \o "_" \o today]
                                    % Len(relevant_tips)
                      IN  {Returned(relevant_tips[seed + 1])}
        ELSE IF Len(relevant_tips) > 0
             THEN {Returned(relevant_tips[i]) : i \in DOMAIN relevant_tips}
             ELSE IF Len(self.career_tips) = 0 THEN {Raised("IndexError")}
                  ELSE {Returned(self.career_tips[1])}

CareerFocuses == {None, "Software Engineer", "Astronaut"}
TipModes == {"student", "professional"}

InitTips ==
    /\ matcher = NotConstructed
    /\ analyzer = NotConstructed
    /\ comparison = NotConstructed
    /\ simulation = NotConstructed
    /\ personality_test = NotConstructed
    /\ \E region \in Regions, tips_file \in CareerTipsFiles :
         role_model_service = RoleModelService(region, NoFile, tips_file)
    /\ warning_system = NotConstructed
    /\ process \in {p \in Processes : p.day = 1}
    /\ call = NoCall
    /\ ret = None

GetDailyTip ==
    /\ call = NoCall
    /\ \E career_focus \in CareerFocuses, user_id \in UserIds, mode \in TipModes :
         /\ call' = [op |-> "get_daily_tip", career_focus |-> career_focus,
                     user_id |-> user_id, mode |-> mode]
         /\ ret' \in get_daily_tip(role_model_service, career_focus, user_id, mode, process)
    /\ UNCHANGED <<components, process>>

\* the server is started again: the new interpreter draws a new hash secret
\* and loads the same files
Restart ==
    /\ call = NoCall
    /\ \E str_hash \in StrHashes :
         /\ str_hash # process.str_hash
         /\ process' = [process EXCEPT !.str_hash = str_hash]
    /\ UNCHANGED <<components, call, ret>>

\* the clock passes midnight
Midnight ==
    /\ call = NoCall
    /\ process.day < Len(Dates)
    /\ process' = [process EXCEPT !.day = @ + 1]
    /\ UNCHANGED <<components, call, ret>>

NextTips == GetDailyTip \/ Restart \/ Midnight \/ Return

SpecTips == InitTips /\ [][NextTips]_vars

\* C12: for a fixed tip table, career_focus and mode, get_daily_tip gives the
\* same tip for the same non-empty user_id on the same date in every process:
\* a step that keeps the date (a restart) changes the outcome of no such call
C12_SameTipInEveryProcess ==
    [][process'.day = process.day =>
         \A career_focus \in CareerFocuses, mode \in TipModes :
           \A user_id \in {u \in UserIds : Truthy(u)} :
             get_daily_tip(role_model_service', career_focus, user_id, mode, process')
               = get_daily_tip(role_model_service, career_focus, user_id, mode, process)]_vars

\* C17: get_daily_tip returns a tip or an error value and never raises, for
\* every tip table, career_focus, mode and user_id
C17_DailyTipNeverRaises ==
    call.op = "get_daily_tip" => ret.raised = None


\* ---------------------------------------------------------------------------
\* RecommendationExplainer (src/recommender/explainer.py)
\* ---------------------------------------------------------------------------

\* a reason string: its text with {} for each formatted value, and the values
\* (', '.join of a set has no defined order: the set itself stands for it)
Reason(text, args) == [text |-> text, args |-> args]

\* len(matched) / max(len(career_set), 1)
Coverage(matched, career_set) ==
    FDivNat(Cardinality(matched), Max(Cardinality(career_set), 1))

\* n >= m * factor for integers n, m and a float factor
AtLeastTimes(n, m, factor) == FLe(FMul(FFromNat(m), factor), FFromNat(n))

_explain_interests_match(career, user_interests) ==
    LET career_interests == Range(DictGet(career, "interests", <<>>))
        user_interests_set == Range(user_interests)
        matched_interests == career_interests \cap user_interests_set
        score == Coverage(matched_interests, career_interests)
        matched_reason ==
            IF matched_interests # {}
            THEN <<Reason("Your interests in {} align well with this career",
                          <<matched_interests>>)>>
            ELSE <<>>
        band_reason ==
            IF AtLeastTimes(Cardinality(matched_interests), Cardinality(career_interests),
                            PyFloat(<<7, 10>>))
            THEN <<Reason("Strong interest alignment - you share most key interests for this field", <<>>)>>
            ELSE IF AtLeastTimes(Cardinality(matched_interests),
                                 Cardinality(career_interests), PyFloat(<<4, 10>>))
            THEN <<Reason("Good interest match - several of your interests align with this career", <<>>)>>
            ELSE <<>>
    IN  [score |-> score, reasons |-> matched_reason \o band_reason,
         strengths |-> matched_interests]

_explain_skills_match(career, user_skills) ==
    LET required_skills == Range(DictGet(career, "required_skills", <<>>))
        user_skills_set == Range(user_skills)
        matched_skills == required_skills \cap user_skills_set
        missing_skills == required_skills \ user_skills_set
        score == Coverage(matched_skills, required_skills)
        matched_reason ==
            IF matched_skills # {}
            THEN <<Reason("You already have {} out of {} key skills: {}",
                          <<Cardinality(matched_skills), Cardinality(required_skills),
                            matched_skills>>)>>
            ELSE <<>>
        missing_reason ==
            IF missing_skills # {}
            THEN <<Reason("Skills to develop: {}", <<missing_skills>>)>>
            ELSE <<>>
        band_reason ==
            IF FLe(PyFloat(<<7, 10>>), score)
            THEN <<Reason("Excellent skill match - you have most required skills", <<>>)>>
            ELSE IF FLe(PyFloat(<<4, 10>>), score)
            THEN <<Reason("Good skill foundation - some development needed", <<>>)>>
            ELSE <<Reason("Significant skill development opportunity", <<>>)>>
    IN  [score |-> score, reasons |-> matched_reason \o missing_reason \o band_reason,
         gaps |-> missing_skills, strengths |-> matched_skills]

_explain_subjects_match(career, user_subjects) ==
    LET career_subjects == Range(DictGet(career, "subjects", <<>>))
        user_subjects_set == Range(user_subjects)
        matched_subjects == career_subjects \cap user_subjects_set
        score == IF career_subjects # {} THEN Coverage(matched_subjects, career_subjects)
                 ELSE PyFloat(<<1, 2>>)
        matched_reason ==
            IF matched_subjects # {}
            THEN <<Reason("Your background in {} provides a strong foundation",
                          <<matched_subjects>>)>>
            ELSE <<>>
        band_reason ==
            IF FLe(PyFloat(<<6, 10>>), score)
            THEN <<Reason("Strong academic preparation for this field", <<>>)>>
            ELSE IF FLe(PyFloat(<<3, 10>>), score)
            THEN <<Reason("Some relevant academic background", <<>>)>>
            ELSE <<>>
    IN  [score |-> score, reasons |-> matched_reason \o band_reason]

_explain_personality_match(career, personality_data) ==
    LET career_traits == Range(DictGet(career, "personality_traits", <<>>))
        user_traits == Range(DictGet(personality_data, "traits", <<>>))
        matched_traits == career_traits \cap user_traits
        score == Coverage(matched_traits, career_traits)
        matched_reason ==
            IF matched_traits # {}
            THEN <<Reason("Your {} personality traits fit well with this career",
                          <<matched_traits>>)>>
            ELSE <<>>
        band_reason ==
            IF FLe(PyFloat(<<6, 10>>), score)
            THEN <<Reason("Strong personality-career alignment", <<>>)>>
            ELSE IF FLe(PyFloat(<<3, 10>>), score)
            THEN <<Reason("Some personality traits align with this career", <<>>)>>
            ELSE <<>>
    IN  [score |-> score, reasons |-> matched_reason \o band_reason]

\* the weighted sum of the four scores, added from left to right
TotalScore(interests, skills, subjects, personality) ==
    FAdd(FAdd(FAdd(FMul(interests, PyFloat(<<4, 10>>)),
                   FMul(skills, PyFloat(<<35, 100>>))),
              FMul(subjects, PyFloat(<<15, 100>>))),
         FMul(personality, PyFloat(<<1, 10>>)))

total_score(career, user_data) ==
    TotalScore(
        _explain_interests_match(career, DictGet(user_data, "interests", <<>>)).score,
        _explain_skills_match(career, DictGet(user_data, "skills", <<>>)).score,
        _explain_subjects_match(career, DictGet(user_data, "subjects", <<>>)).score,
        _explain_personality_match(career, DictGet(user_data, "personality", EmptyDict)).score)

\* the explanation of the four matches; skill_gaps is list(set) and strengths
\* the concatenation of two such lists, kept as the sets they list
Explanation(interests_match, skills_match, subjects_match, personality_match) ==
    [overall_match |->
         FTrunc(FMul(TotalScore(interests_match.score, skills_match.score,
                                subjects_match.score, personality_match.score),
                     FFromNat(100))),
     reasons |-> interests_match.reasons \o skills_match.reasons
                   \o subjects_match.reasons \o personality_match.reasons,
     skill_gaps |-> skills_match.gaps,
     strengths |-> <<interests_match.strengths, skills_match.strengths>>]

explain_recommendation(career, user_data) ==
    Explanation(
        _explain_interests_match(career, DictGet(user_data, "interests", <<>>)),
        _explain_skills_match(career, DictGet(user_data, "skills", <<>>)),
        _explain_subjects_match(career, DictGet(user_data, "subjects", <<>>)),
        _explain_personality_match(career, DictGet(user_data, "personality", EmptyDict)))


\* the number of items of one dimension of an explained career
MaxExplainItems == 2
\* the number of interests and skills of the careers that probe the bands
MaxBandItems == 10

ExplainItemNames ==
    <<"technology", "problem_solving", "creativity", "design", "research", "analysis",
      "communication", "leadership", "strategy", "empathy", "mathematics", "writing">>

\* a career list of n items and a user list that shares k of them
SharedPairs(max) == {nk \in (0..max) \X (0..max) : nk[2] <= nk[1]}
CareerList(nk) == Take(ExplainItemNames, nk[1])
UserList(nk) == Take(ExplainItemNames, nk[2]) \o <<"gardening">>

ExplainInput(interests, skills, subjects, traits) ==
    [career |-> [name |-> "Career", interests |-> CareerList(interests),
                 required_skills |-> CareerList(skills), subjects |-> CareerList(subjects),
                 personality_traits |-> CareerList(traits)],
     user_data |-> [interests |-> UserList(interests), skills |-> UserList(skills),
                    subjects |-> UserList(subjects),
                    personality |-> [traits |-> UserList(traits)]]]

\* every combination of short lists (at most one personality trait), and
\* long interest and skill lists
ExplainInputs ==
    {ExplainInput(i, s, b, p) : i \in SharedPairs(MaxExplainItems),
                                s \in SharedPairs(MaxExplainItems),
                                b \in SharedPairs(MaxExplainItems),
                                p \in SharedPairs(1)}
    \cup {ExplainInput(nk, nk, <<0, 0>>, <<0, 0>>) : nk \in SharedPairs(MaxBandItems)}

InitExplain ==
    /\ matcher = NotConstructed
    /\ analyzer = NotConstructed
    /\ comparison = NotConstructed
    /\ simulation = NotConstructed
    /\ personality_test = NotConstructed
    /\ role_model_service = NotConstructed
    /\ warning_system = NotConstructed
    /\ process = NotStarted
    /\ call = NoCall
    /\ ret = None

ExplainRecommendation ==
    /\ call = NoCall
    /\ \E input \in ExplainInputs :
         /\ call' = [op |-> "explain_recommendation", career |-> input.career,
                     user_data |-> input.user_data]
         /\ ret' = explain_recommendation(input.career, input.user_data)
    /\ UNCHANGED <<components, process>>

NextExplain == ExplainRecommendation \/ Return

SpecExplain == InitExplain /\ [][NextExplain]_vars

\* the integers nearest to a float x (both neighbours at a tie)
Nearest(x) ==
    LET below == FTrunc(x)
        c == FCmp(x, FAdd(FFromNat(below), PyFloat(<<1, 2>>)))
    IN  IF c < 0 THEN {below} ELSE IF c > 0 THEN {below + 1} ELSE {below, below + 1}

\* C19: explain_recommendation returns overall_match = round(100 * (0.4 *
\* interest coverage + 0.35 * skill coverage + 0.15 * subject coverage + 0.1 *
\* personality coverage)), the weighted sum rounded to the nearest integer
\* percent, an integer in 0..100
C19_OverallMatchRounded ==
    call.op = "explain_recommendation" =>
        /\ ret.overall_match
             \in Nearest(FMul(total_score(call.career, call.user_data), FFromNat(100)))
        /\ ret.overall_match \in 0..100

\* the call's reasons hold a reason with this text
HasReason(text) == \E i \in DOMAIN ret.reasons : ret.reasons[i].text = text
\* how many of the call's reasons have a text of this set
CountReasons(texts) == Cardinality({i \in DOMAIN ret.reasons : ret.reasons[i].text \in texts})

\* the coverage |matched| / max(|career set|, 1) of a dimension of the call
CallCoverage(career_key, user_key) ==
    Coverage(Range(call.career[career_key]) \cap Range(call.user_data[user_key]),
             Range(call.career[career_key]))

\* the 'strong' reason is there exactly at coverage >= 0.7, the 'good' reason
\* exactly at 0.4 <= coverage < 0.7, and at most one of the two is there
Banded(coverage, strong, good) ==
    /\ HasReason(strong) <=> FLe(PyFloat(<<7, 10>>), coverage)
    /\ HasReason(good) <=> (FLe(PyFloat(<<4, 10>>), coverage) /\ FLt(coverage, PyFloat(<<7, 10>>)))
    /\ CountReasons({strong, good}) <= 1

\* C20: for the interests and the skills dimension the 'strong/excellent'
\* reason is emitted exactly when the coverage is at least 0.7, the 'good'
\* reason exactly when it is at least 0.4 and below 0.7, at most one band
\* reason per dimension, also for an empty interest or required-skill set
C20_BandsFollowCoverage ==
    call.op = "explain_recommendation" =>
        /\ Banded(CallCoverage("interests", "interests"),
                  "Strong interest alignment - you share most key interests for this field",
                  "Good interest match - several of your interests align with this career")
        /\ Banded(CallCoverage("required_skills", "skills"),
                  "Excellent skill match - you have most required skills",
                  "Good skill foundation - some development needed")


\* ---------------------------------------------------------------------------
\* FailureWarningSystem (src/recommender/failure_warning_system.py)
\* ---------------------------------------------------------------------------

\* a - b for floats a >= b
FSub(a, b) ==
    IF b.m = <<>> THEN a
    ELSE LET e == IF a.e < b.e THEN a.e ELSE b.e
         IN  FRound(BigSub(BigShl(a.m, a.e - e), BigShl(b.m, b.e - e)), e, FALSE)

\* min(a, b) and max(a, b) of two floats
FMin(a, b) == IF FLt(b, a) THEN b ELSE a
FMax(a, b) == IF FLt(a, b) THEN b ELSE a

\* str(n) for an int n >= 0
RECURSIVE NatToStr(_)
NatToStr(n) ==
    IF n < 10 THEN SubSeq(Digits, n + 1, n + 1)
    ELSE NatToStr(n \div 10) \o SubSeq(Digits, (n % 10) + 1, (n % 10) + 1)

\* f"{x:.1f}" for a float x >= 0
FormatOneDecimal(x) ==
    LET tenths == FRoundDigits(x, 1)
    IN  NatToStr(tenths \div 10) \o "." \o NatToStr(tenths % 10)

\* one entry of a warning_levels dict; the dict keeps the order of the file
WarningLevel(level, low, high, recommendations) ==
    [level |-> level, score_range |-> <<PyFloat(low), PyFloat(high)>>,
     recommendations |-> recommendations]

WarningLevels(dimension) ==
    << WarningLevel("low_risk", <<0, 10>>, <<3, 10>>,
                    <<"Keep up the " \o dimension \o " habits">>),
       WarningLevel("moderate_risk", <<3, 10>>, <<6, 10>>,
                    <<"Review " \o dimension \o " with a mentor">>),
       WarningLevel("high_risk", <<6, 10>>, <<10, 10>>,
                    <<"Seek immediate support for " \o dimension>>) >>

\* one career of a career_risk_mapping category
CareerRisk(career, stress_level, dropout_rate, common_reasons) ==
    [career |-> career, stress_level |-> PyFloat(stress_level),
     dropout_rate |-> dropout_rate, common_reasons |-> common_reasons]

\* data/failure_warning_criteria.json: the keys the code reads.  The values
\* of career_risk_mapping are lists, in the order of the file.
FailureWarningCriteriaFile ==
    [ failure_warning_criteria |->
        [ academic_consistency |-> [warning_levels |-> WarningLevels("academic")],
          interest_stability |-> [warning_levels |-> WarningLevels("interest")],
          stress_tolerance |-> [warning_levels |-> WarningLevels("stress")] ],
      career_risk_mapping |->
        << << CareerRisk("Doctor", <<45, 10>>, "15%", <<"burnout", "long training">>),
              CareerRisk("Lawyer", <<40, 10>>, "12%", <<"long hours">>) >>,
           << CareerRisk("Teacher", <<30, 10>>, "8%", <<"low pay">>),
              CareerRisk("Software Engineer", <<32, 10>>, "10%", <<"rapid change">>) >> >>,
      intervention_strategies |->
        [ academic_support |-> <<"Tutoring", "Study groups", "Time management coaching">>,
          stress_management |-> <<"Counseling", "Mindfulness practice">>,
          career_alternatives |-> <<"Explore related fields">>,
          interest_exploration |-> <<"Job shadowing", "Informational interviews",
                                     "Career assessments">> ] ]

\* _load_criteria_data: an absent file gives {}
_load_criteria_data(criteria_file) ==
    IF criteria_file.exists THEN criteria_file.content ELSE EmptyDict

FailureWarningSystem(criteria_file) ==
    [constructed |-> TRUE, criteria_data |-> _load_criteria_data(criteria_file)]

\* a float with a sign
Signed(neg, abs) == [neg |-> neg, abs |-> abs]

\* max(grades)
RECURSIVE MaxOf(_)
MaxOf(numbers) ==
    IF Len(numbers) = 1 THEN Head(numbers)
    ELSE Max(Head(numbers), MaxOf(Tail(numbers)))

\* _calculate_grade_trend for int grades >= 0: the slope of the least-squares
\* line over the positions 0..n-1, divided by the highest grade
_calculate_grade_trend(grades) ==
    IF Len(grades) < 2 THEN Returned(Signed(FALSE, FZero))
    ELSE LET n == Len(grades)
             RECURSIVE Sum(_, _)
             Sum(i, kind) ==
                 IF i > n THEN 0
                 ELSE (CASE kind = "x" -> i - 1
                         [] kind = "y" -> grades[i]
                         [] kind = "xy" -> (i - 1) * grades[i]
                         [] kind = "x2" -> (i - 1) * (i - 1)) + Sum(i + 1, kind)
             sum_x == Sum(1, "x")
             sum_y == Sum(1, "y")
             sum_xy == Sum(1, "xy")
             sum_x2 == Sum(1, "x2")
             denominator == n * sum_x2 - sum_x * sum_x
             numerator == n * sum_xy - sum_x * sum_y
         IN  IF denominator = 0 THEN Returned(Signed(FALSE, FZero))
             ELSE IF MaxOf(grades) = 0 THEN Raised("ZeroDivisionError")
             ELSE Returned(Signed(numerator < 0,
                                  FDivSmall(FDivNat(IF numerator < 0 THEN 0 - numerator
                                                    ELSE numerator, denominator),
                                            MaxOf(grades))))

\* _get_risk_level: the first level of the dict whose range holds the score
_get_risk_level(score, warning_levels) ==
    LET holding == {i \in DOMAIN warning_levels :
                      /\ FLe(warning_levels[i].score_range[1], score)
                      /\ FLe(score, warning_levels[i].score_range[2])}
    IN  IF holding = {} THEN "moderate_risk"
        ELSE warning_levels[CHOOSE i \in holding : \A j \in holding : i <= j].level

\* warning_levels[risk_level]['recommendations'], KeyError for an absent level
LevelRecommendations(warning_levels, risk_level) ==
    LET at == {i \in DOMAIN warning_levels : warning_levels[i].level = risk_level}
    IN  IF at = {} THEN Raised("KeyError")
        ELSE Returned(warning_levels[CHOOSE i \in at : TRUE].recommendations)

\* the end of the three _analyze_ methods: the level of the summed score and
\* the record of the dimension
DimensionRisk(criteria, risk_score, risk_factors_found) ==
    LET risk_level == _get_risk_level(risk_score, criteria.warning_levels)
        recommendations == LevelRecommendations(criteria.warning_levels, risk_level)
    IN  IF recommendations.raised # None THEN recommendations
        ELSE Returned([score |-> FMin(FOne, risk_score),
                       level |-> risk_level,
                       risk_factors |-> risk_factors_found,
                       recommendations |-> recommendations.value])

\* self.criteria_data['failure_warning_criteria'][dimension]
Criteria(self, dimension) ==
    IF "failure_warning_criteria" \in DOMAIN self.criteria_data
       /\ dimension \in DOMAIN self.criteria_data.failure_warning_criteria
    THEN Returned(self.criteria_data.failure_warning_criteria[dimension])
    ELSE Raised("KeyError")

\* one test of an _analyze_ method: when it hits, the score grows and the
\* factor is listed
RiskTest(hit, add, factor) == [hit |-> hit, add |-> PyFloat(add), factor |-> factor]

\* risk_score after the tests, from 0.0, in their order
RECURSIVE RiskScore(_)
RiskScore(tests) ==
    IF tests = <<>> THEN FZero
    ELSE LET before == RiskScore(SubSeq(tests, 1, Len(tests) - 1))
             last == tests[Len(tests)]
         IN  IF last.hit THEN FAdd(before, last.add) ELSE before

RECURSIVE RiskFactors(_)
RiskFactors(tests) ==
    IF tests = <<>> THEN <<>>
    ELSE (IF Head(tests).hit THEN <<Head(tests).factor>> ELSE <<>>)
         \o RiskFactors(Tail(tests))

\* the end of _analyze_academic_consistency: the failed subjects add to the
\* score of the tests, at most 0.25, and are listed after their factors
AcademicDimension(criteria, tests, subject_failures) ==
    DimensionRisk(
        criteria,
        IF subject_failures > 0
        THEN FAdd(RiskScore(tests),
                  FMin(PyFloat(<<25, 100>>),
                       FMul(FFromNat(subject_failures), PyFloat(<<1, 10>>))))
        ELSE RiskScore(tests),
        RiskFactors(tests)
        \o (IF subject_failures > 0
            THEN <<"Failed " \o NatToStr(subject_failures) \o " subjects">> ELSE <<>>))

\* the tests of _analyze_academic_consistency on the trend of the grades, the
\* attendance and the study habits
AcademicRisk(criteria, grade_trend, attendance, study_consistency, subject_failures) ==
    IF criteria.raised # None THEN criteria
    ELSE IF grade_trend.raised # None THEN grade_trend
    ELSE AcademicDimension(
             criteria.value,
             << RiskTest(/\ grade_trend.value.neg
                         /\ FLt(PyFloat(<<1, 10>>), grade_trend.value.abs),
                         <<3, 10>>, "Declining academic performance"),
                RiskTest(attendance < 75, <<2, 10>>, "Poor attendance record"),
                RiskTest(study_consistency < 4, <<25, 100>>, "Inconsistent study habits") >>,
             subject_failures)

_analyze_academic_consistency(self, academic_data) ==
    AcademicRisk(Criteria(self, "academic_consistency"),
                 IF Len(DictGet(academic_data, "grades", <<>>)) >= 2
                 THEN _calculate_grade_trend(DictGet(academic_data, "grades", <<>>))
                 ELSE Returned(Signed(FALSE, FZero)),
                 DictGet(academic_data, "attendance_rate", 100),
                 DictGet(academic_data, "study_consistency_score", 5),
                 DictGet(academic_data, "failed_subjects", 0))

_analyze_interest_stability(self, interest_data) ==
    LET criteria == Criteria(self, "interest_stability")
        career_changes == DictGet(interest_data, "career_changes_count", 0)
        research_depth == DictGet(interest_data, "career_research_score", 5)
        external_influence == DictGet(interest_data, "external_pressure_score", 3)
        passion_score == DictGet(interest_data, "passion_indicators_score", 5)
        tests == << RiskTest(career_changes >= 3, <<35, 100>>,
                             "Changed career goals " \o NatToStr(career_changes) \o " times"),
                    RiskTest(research_depth < 4, <<25, 100>>, "Limited career research"),
                    RiskTest(external_influence > 7, <<2, 10>>,
                             "High external pressure in career choice"),
                    RiskTest(passion_score < 4, <<2, 10>>, "Low passion for chosen field") >>
    IN  IF criteria.raised # None THEN criteria
        ELSE DimensionRisk(criteria.value, RiskScore(tests), RiskFactors(tests))

_analyze_stress_tolerance(self, stress_data) ==
    LET criteria == Criteria(self, "stress_tolerance")
        anxiety_score == DictGet(stress_data, "anxiety_level", 3)
        pressure_performance == DictGet(stress_data, "pressure_performance_score", 5)
        coping_skills == DictGet(stress_data, "coping_skills_score", 5)
        resilience_score == DictGet(stress_data, "resilience_score", 5)
        tests == << RiskTest(anxiety_score > 7, <<3, 10>>, "High anxiety levels"),
                    RiskTest(pressure_performance < 4, <<25, 100>>,
                             "Poor performance under pressure"),
                    RiskTest(coping_skills < 4, <<25, 100>>,
                             "Lack of healthy coping mechanisms"),
                    RiskTest(resilience_score < 4, <<2, 10>>, "Low resilience to setbacks") >>
    IN  IF criteria.raised # None THEN criteria
        ELSE DimensionRisk(criteria.value, RiskScore(tests), RiskFactors(tests))

_identify_primary_concerns(academic_risk, interest_risk, stress_risk) ==
    LET half == PyFloat(<<1, 2>>)
        concerns ==
            (IF FLt(half, academic_risk.score) THEN <<"Academic Performance">> ELSE <<>>)
            \o (IF FLt(half, interest_risk.score) THEN <<"Career Interest Stability">> ELSE <<>>)
            \o (IF FLt(half, stress_risk.score) THEN <<"Stress Management">> ELSE <<>>)
    IN  IF concerns # <<>> THEN concerns ELSE <<"Overall Career Readiness">>

\* the level of the overall score and the record _calculate_overall_risk returns
OverallRisk(overall_score, academic_risk, interest_risk, stress_risk) ==
    [score |-> overall_score,
     level |-> IF FLe(overall_score, PyFloat(<<3, 10>>)) THEN "low_risk"
               ELSE IF FLe(overall_score, PyFloat(<<6, 10>>)) THEN "moderate_risk"
               ELSE "high_risk",
     primary_concerns |->
         _identify_primary_concerns(academic_risk, interest_risk, stress_risk)]

_calculate_overall_risk(academic_risk, interest_risk, stress_risk) ==
    OverallRisk(FAdd(FAdd(FMul(academic_risk.score, PyFloat(<<4, 10>>)),
                          FMul(interest_risk.score, PyFloat(<<3, 10>>))),
                     FMul(stress_risk.score, PyFloat(<<3, 10>>))),
                academic_risk, interest_risk, stress_risk)

_assess_career_fit(career_info, overall_risk) ==
    LET career_stress == career_info.stress_level
        student_risk == overall_risk.score
    IN  IF FLt(PyFloat(<<6, 10>>), student_risk) /\ FLt(FFromNat(3), career_stress)
        THEN "High Risk - Not Recommended"
        ELSE IF FLt(PyFloat(<<4, 10>>), student_risk) /\ FLt(PyFloat(<<35, 10>>), career_stress)
        THEN "Moderate Risk - Proceed with Caution"
        ELSE IF FLt(student_risk, PyFloat(<<3, 10>>))
        THEN "Good Fit - Low Risk"
        ELSE "Moderate Fit - Monitor Progress"

_generate_career_warnings(career_info, overall_risk) ==
    (IF FLt(PyFloat(<<1, 2>>), overall_risk.score)
     THEN << "High dropout rate (" \o career_info.dropout_rate \o ") in this field",
             "Your risk profile suggests challenges in this career" >>
     ELSE <<>>)
    \o (IF FLt(FFromNat(3), career_info.stress_level)
           /\ FLt(PyFloat(<<4, 10>>), overall_risk.score)
        THEN <<"This is a high-stress career that may not suit your stress tolerance">>
        ELSE <<>>)

\* _get_career_specific_warnings: the break leaves only the inner loop, so a
\* career listed in several categories takes the entry of the last of them
_get_career_specific_warnings(self, career_preferences, overall_risk) ==
    LET career_risk_mapping == DictGet(self.criteria_data, "career_risk_mapping", <<>>)
        FirstIn(category, career) ==
            LET at == {i \in DOMAIN category : category[i].career = career}
            IN  IF at = {} THEN <<>>
                ELSE <<category[CHOOSE i \in at : \A j \in at : i <= j]>>
        RECURSIVE Find(_, _, _)
        Find(k, career, career_info) ==
            IF k > Len(career_risk_mapping) THEN career_info
            ELSE LET found == FirstIn(career_risk_mapping[k], career)
                 IN  Find(k + 1, career, IF found # <<>> THEN found ELSE career_info)
        RECURSIVE Warnings(_)
        Warnings(k) ==
            IF k > Len(career_preferences) THEN <<>>
            ELSE LET career == career_preferences[k]
                     career_info == Find(1, career, <<>>)
                 IN  (IF career_info # <<>>
                      THEN << [career |-> career,
                               career_stress_level |-> career_info[1].stress_level,
                               dropout_rate |-> career_info[1].dropout_rate,
                               common_failure_reasons |-> career_info[1].common_reasons,
                               risk_assessment |->
                                   _assess_career_fit(career_info[1], overall_risk),
                               specific_warnings |->
                                   _generate_career_warnings(career_info[1], overall_risk)] >>
                      ELSE <<>>)
                     \o Warnings(k + 1)
    IN  Warnings(1)

_generate_recommendations(academic_risk, interest_risk, stress_risk) ==
    LET half == PyFloat(<<1, 2>>)
    IN  (IF FLt(half, academic_risk.score)
         THEN << "Focus on improving study habits and time management",
                 "Consider academic tutoring or support services",
                 "Address attendance and engagement issues" >>
         ELSE <<>>)
        \o (IF FLt(half, interest_risk.score)
            THEN << "Spend more time exploring career options through internships",
                    "Talk to professionals in your field of interest",
                    "Consider career counseling to clarify your interests" >>
            ELSE <<>>)
        \o (IF FLt(half, stress_risk.score)
            THEN << "Learn stress management and relaxation techniques",
                    "Consider careers with better work-life balance",
                    "Seek counseling for anxiety management" >>
            ELSE <<>>)

_get_intervention_strategies(self, overall_risk) ==
    LET strategies == DictGet(self.criteria_data, "intervention_strategies", EmptyDict)
    IN  IF overall_risk.level = "high_risk"
        THEN DictGet(strategies, "academic_support", <<>>)
             \o DictGet(strategies, "stress_management", <<>>)
             \o DictGet(strategies, "career_alternatives", <<>>)
        ELSE IF overall_risk.level = "moderate_risk"
        THEN DictGet(strategies, "interest_exploration", <<>>)
             \o Take(DictGet(strategies, "academic_support", <<>>), 2)
        ELSE Take(DictGet(strategies, "interest_exploration", <<>>), 2)

\* the record _calculate_success_probability returns
SuccessProbability(risk_score, success_probability) ==
    [probability |-> success_probability,
     percentage |-> FormatOneDecimal(FMul(success_probability, FFromNat(100))) \o "%",
     outlook |-> IF FLt(PyFloat(<<8, 10>>), success_probability) THEN "Excellent"
                 ELSE IF FLt(PyFloat(<<6, 10>>), success_probability) THEN "Good"
                 ELSE IF FLt(PyFloat(<<4, 10>>), success_probability) THEN "Fair"
                 ELSE "Challenging",
     confidence_level |->
         IF FLt(risk_score, PyFloat(<<3, 10>>)) \/ FLt(PyFloat(<<7, 10>>), risk_score)
         THEN "High" ELSE "Moderate"]

\* the success probability without the floor of 0.1
_calculate_success_probability_without_floor(overall_risk) ==
    SuccessProbability(overall_risk.score,
                       IF FLe(overall_risk.score, FOne)
                       THEN FSub(FOne, overall_risk.score)
                       ELSE FZero)

\* _calculate_success_probability for a risk score of at most 1.0
_calculate_success_probability(overall_risk) ==
    SuccessProbability(overall_risk.score,
                       IF FLe(overall_risk.score, FOne)
                       THEN FMax(PyFloat(<<1, 10>>), FSub(FOne, overall_risk.score))
                       ELSE PyFloat(<<1, 10>>))

AlternativePath(path, description, duration, benefits) ==
    [path |-> path, description |-> description, duration |-> duration,
     benefits |-> benefits]

_suggest_alternative_paths(overall_risk, student_data) ==
    IF FLt(PyFloat(<<6, 10>>), overall_risk.score)
    THEN << AlternativePath("Gap Year with Skill Development",
                "Take time to build foundational skills and explore interests",
                "1 year", <<"Reduced pressure", "Skill building", "Career exploration">>),
            AlternativePath("Community College Start",
                "Begin with community college to build academic confidence",
                "2 years", <<"Lower cost", "Smaller classes", "Academic support">>),
            AlternativePath("Trade/Vocational Training",
                "Consider skilled trades with good job prospects",
                "6 months - 2 years", <<"Hands-on learning", "Job security", "Good wages">>) >>
    ELSE IF FLt(PyFloat(<<4, 10>>), overall_risk.score)
    THEN << AlternativePath("Structured Support Program",
                "Enroll in programs with built-in academic and career support",
                "Throughout education", <<"Mentorship", "Academic support", "Career guidance">>),
            AlternativePath("Part-time Study Option",
                "Reduce course load to manage stress and improve performance",
                "Extended timeline", <<"Reduced stress", "Work experience", "Better balance">>) >>
    ELSE <<>>

\* the dict analyze_student_risk returns, of the three dimensions and the
\* overall risk computed from them
RiskAnalysis(self, student_data, academic_risk, interest_risk, stress_risk, overall_risk) ==
    Returned(
      [overall_risk_score |-> overall_risk.score,
       overall_risk_level |-> overall_risk.level,
       risk_breakdown |-> [academic_consistency |-> academic_risk,
                           interest_stability |-> interest_risk,
                           stress_tolerance |-> stress_risk],
       career_warnings |->
           _get_career_specific_warnings(
               self, DictGet(student_data, "career_preferences", <<>>), overall_risk),
       recommendations |->
           _generate_recommendations(academic_risk, interest_risk, stress_risk),
       intervention_strategies |-> _get_intervention_strategies(self, overall_risk),
       success_probability |-> _calculate_success_probability(overall_risk),
       alternative_paths |-> _suggest_alternative_paths(overall_risk, student_data)])

\* an exception of a dimension's analysis leaves analyze_student_risk
AssessedRisk(self, student_data, academic_risk, interest_risk, stress_risk) ==
    IF academic_risk.raised # None THEN academic_risk
    ELSE IF interest_risk.raised # None THEN interest_risk
    ELSE IF stress_risk.raised # None THEN stress_risk
    ELSE RiskAnalysis(self, student_data, academic_risk.value, interest_risk.value,
                      stress_risk.value,
                      _calculate_overall_risk(academic_risk.value, interest_risk.value,
                                              stress_risk.value))

analyze_student_risk(self, student_data) ==
    AssessedRisk(
        self, student_data,
        _analyze_academic_consistency(self, DictGet(student_data, "academic_history", EmptyDict)),
        _analyze_interest_stability(self, DictGet(student_data, "interest_history", EmptyDict)),
        _analyze_stress_tolerance(self, DictGet(student_data, "stress_indicators", EmptyDict)))


\* the highest number of failed subjects of a student record
MaxFailedSubjects == 2

\* academic_history: the grades (absent, falling, all zero), attendance and
\* study habits (good or poor together) and the failed subjects
AcademicHistories ==
    {(IF grades = <<>> THEN EmptyDict ELSE [grades |-> grades])
       @@ [attendance_rate |-> engagement[1], study_consistency_score |-> engagement[2],
           failed_subjects |-> failed] :
     grades \in {<<>>, <<80, 60>>, <<0, 0>>},
     engagement \in {<<100, 5>>, <<60, 2>>},
     failed \in 0..MaxFailedSubjects}

InterestHistories ==
    [career_changes_count : {0, 3}, passion_indicators_score : {5, 2}]

StressIndicators ==
    [anxiety_level : {3, 8}, coping_skills_score : {5, 2}]

\* the student records: every combination, and the record without any key
StudentRecords ==
    {EmptyDict} \cup
    [academic_history : AcademicHistories, interest_history : InterestHistories,
     stress_indicators : StressIndicators,
     career_preferences : {<<>>, <<"Doctor", "Astronaut">>}]

InitWarning ==
    /\ matcher = NotConstructed
    /\ analyzer = NotConstructed
    /\ comparison = NotConstructed
    /\ simulation = NotConstructed
    /\ personality_test = NotConstructed
    /\ role_model_service = NotConstructed
    /\ \E criteria_file \in {NoFile, File(FailureWarningCriteriaFile)} :
         warning_system = FailureWarningSystem(criteria_file)
    /\ process = NotStarted
    /\ call = NoCall
    /\ ret = None

AnalyzeStudentRisk ==
    /\ call = NoCall
    /\ \E student_data \in StudentRecords :
         /\ call' = [op |-> "analyze_student_risk", student_data |-> student_data]
         /\ ret' = analyze_student_risk(warning_system, student_data)
    /\ UNCHANGED <<components, process>>

NextWarning == AnalyzeStudentRisk \/ Return

SpecWarning == InitWarning /\ [][NextWarning]_vars

\* C14: a component whose reference file was absent at construction holds a
\* built-in default data set and its main operation returns normally; here
\* for FailureWarningSystem.analyze_student_risk and the risk criteria
C14_MissingFileFallsBack ==
    (warning_system = FailureWarningSystem(NoFile) /\ call.op = "analyze_student_risk") =>
        /\ DOMAIN warning_system.criteria_data # {}
        /\ ret.raised = None


\* ---------------------------------------------------------------------------
\* CareerSimulation: the summary, the stress timeline and the insights
\* ---------------------------------------------------------------------------

\* the value of the one-element set {result}: what an operation returns once
\* the call it makes has returned result
get_simulation_summary(self, career_name, region) ==
    LET summary(result) ==
            IF result.raised # None THEN result
            ELSE IF "error" \in DOMAIN result.value THEN result
            ELSE Returned([career_title |-> result.value.career_title,
                           overview |-> result.value.overview,
                           working_hours |-> result.value.working_hours,
                           average_stress_level |-> result.value.average_stress_level,
                           work_life_balance |-> result.value.work_life_balance,
                           salary_range |-> result.value.salary_range,
                           key_stress_factors |-> Take(result.value.stress_factors, 3),
                           key_rewards |-> Take(result.value.rewards, 3),
                           peak_stress_time |-> result.value.peak_stress_time,
                           work_intensity |-> result.value.work_intensity])
    IN  CHOOSE out \in {summary(result) :
                           result \in {get_career_simulation(self, career_name, region)}} :
            TRUE

get_stress_timeline(self, career_name, region) ==
    LET timeline(schedule) ==
            [i \in DOMAIN schedule |->
                [time |-> schedule[i].time, task |-> schedule[i].task,
                 stress_level |-> schedule[i].stress_level,
                 duration |-> schedule[i].duration,
                 description |-> schedule[i].description]]
        stress_timeline(result) ==
            IF result.raised # None THEN result
            ELSE IF "error" \in DOMAIN result.value THEN result
            ELSE Returned([career_title |-> result.value.career_title,
                           timeline |-> timeline(result.value.daily_schedule),
                           stress_scale |->
                               DictGet(DictGet(self.simulations_data, "simulation_metadata",
                                               EmptyDict),
                                       "stress_scale", EmptyDict),
                           average_stress |-> result.value.average_stress_level])
    IN  CHOOSE out \in {stress_timeline(result) :
                           result \in {get_career_simulation(self, career_name, region)}} :
            TRUE

\* sum(task['stress_level'] for task in schedule[first - 1:last])
StressSum(schedule, first, last) ==
    LET part == SubSeq(schedule, Min(first, Len(schedule) + 1), Min(last, Len(schedule)))
    IN  SumOver(part, [task \in Range(part) |-> task.stress_level])

\* max(afternoon_stress, evening_stress) as the period of the day
MostStressfulPeriod(morning_stress, afternoon_stress, evening_stress) ==
    IF FLe(FMax(afternoon_stress, evening_stress), morning_stress) THEN "Morning"
    ELSE IF FLe(evening_stress, afternoon_stress) THEN "Afternoon"
    ELSE "Evening"

\* the insights of a career that skip the test for the error object
get_career_insights_unchecked(self, career_name, region) ==
    LET insights(result) ==
            IF result.raised # None THEN result
            ELSE IF "daily_schedule" \notin DOMAIN result.value THEN Raised("KeyError")
            ELSE Returned([career_title |-> result.value.career_title])
    IN  CHOOSE out \in {insights(result) :
                           result \in {get_career_simulation(self, career_name, region)}} :
            TRUE

\* get_career_insights; each round(x, 1) is held in tenths
get_career_insights(self, career_name, region) ==
    LET daily_patterns(schedule) ==
            CHOOSE patterns \in
                { [morning_stress_avg_tenths |-> FRoundDigits(stress[1], 1),
                   afternoon_stress_avg_tenths |-> FRoundDigits(stress[2], 1),
                   evening_stress_avg_tenths |-> FRoundDigits(stress[3], 1),
                   most_stressful_period |->
                       MostStressfulPeriod(stress[1], stress[2], stress[3])] :
                  stress \in
                    {<<FDivNat(StressSum(schedule, 1, 3), 3),
                       IF Len(schedule) > 6 THEN FDivNat(StressSum(schedule, 4, 6), 3)
                       ELSE FZero,
                       IF Len(schedule) > 6
                       THEN FDivNat(StressSum(schedule, 7, Len(schedule)),
                                    Len(schedule) - 6)
                       ELSE FZero>>} } : TRUE
        insights(result) ==
            IF result.raised # None THEN result
            ELSE IF "error" \in DOMAIN result.value THEN result
            ELSE Returned(
              [career_title |-> result.value.career_title,
               daily_patterns |-> daily_patterns(result.value.daily_schedule),
               work_characteristics |->
                 [total_working_hours |-> result.value.working_hours.total_hours,
                  flexibility |-> IF "flexible" \in DOMAIN result.value.working_hours
                                  THEN "High" ELSE "Medium",
                  physical_demands |-> IF career_name \in {"Doctor", "IAS Officer"}
                                       THEN "High" ELSE "Low",
                  mental_demands |-> IF result.value.average_stress_level > 3
                                     THEN "High" ELSE "Medium"],
               career_progression |->
                 [entry_barrier |->
                    IF StrContains("degree", StrLower(result.value.education_required))
                    THEN "High" ELSE "Medium",
                  learning_curve |-> IF result.value.average_stress_level > 3
                                     THEN "Steep" ELSE "Moderate",
                  growth_potential |->
                    IF career_name \in {"Doctor", "IAS Officer", "Software Engineer"}
                    THEN "High" ELSE "Medium"],
               lifestyle_impact |->
                 [work_life_balance_rating |->
                    result.value.work_intensity.work_life_balance_score,
                  social_impact |-> IF career_name \in {"Doctor", "IAS Officer", "Teacher"}
                                    THEN "High" ELSE "Medium",
                  financial_stability |->
                    IF StrContains("high", StrLower(result.value.salary_range))
                       \/ StrContains("$", result.value.salary_range)
                    THEN "High" ELSE "Medium"]])
    IN  CHOOSE out \in {insights(result) :
                           result \in {get_career_simulation(self, career_name, region)}} :
            TRUE

\* the most tasks of a day whose morning, afternoon and evening are viewed
MaxViewTasks == 8

\* a task of each stress level
TaskOfStress ==
    [stress_level \in 1..5 |->
        CHOOSE kind \in TaskKinds :
            /\ kind.stress_level = stress_level
            /\ kind.task \in {"Email", "Planning", "Code review", "Client meeting", "Release"}]

\* the days of up to MaxViewTasks tasks whose first three, next three and
\* remaining tasks have one stress level each
ViewSchedules ==
    { [i \in 1..n |->
          LET kind == TaskOfStress[levels[IF i <= 3 THEN 1 ELSE IF i <= 6 THEN 2 ELSE 3]]
          IN  [time |-> TimeOfTask(i), task |-> kind.task, duration |-> kind.duration,
               stress_level |-> kind.stress_level,
               description |-> "About " \o kind.task]] :
      n \in 0..MaxViewTasks, levels \in [1..3 -> {1, 3, 5}] }

InitViews ==
    /\ matcher = NotConstructed
    /\ analyzer = NotConstructed
    /\ comparison = NotConstructed
    /\ \/ \E daily_schedule \in ViewSchedules :
            simulation = CareerSimulation(File(SimulationsFile(daily_schedule)))
       \/ simulation = CareerSimulation(NoFile)
    /\ personality_test = NotConstructed
    /\ role_model_service = NotConstructed
    /\ warning_system = NotConstructed
    /\ process = NotStarted
    /\ call = NoCall
    /\ ret = None

GetSimulationSummary ==
    /\ call = NoCall
    /\ \E career_name \in SimulatedCareerNames, region \in Regions :
         /\ call' = [op |-> "get_simulation_summary", career_name |-> career_name,
                     region |-> region]
         /\ ret' = get_simulation_summary(simulation, career_name, region)
         /\ simulation' = AfterSimulation(simulation, career_name, region)
    /\ UNCHANGED <<matcher, analyzer, comparison, personality_test, role_model_service,
                   warning_system, process>>

GetStressTimeline ==
    /\ call = NoCall
    /\ \E career_name \in SimulatedCareerNames, region \in Regions :
         /\ call' = [op |-> "get_stress_timeline", career_name |-> career_name,
                     region |-> region]
         /\ ret' = get_stress_timeline(simulation, career_name, region)
         /\ simulation' = AfterSimulation(simulation, career_name, region)
    /\ UNCHANGED <<matcher, analyzer, comparison, personality_test, role_model_service,
                   warning_system, process>>

GetCareerInsights ==
    /\ call = NoCall
    /\ \E career_name \in SimulatedCareerNames, region \in Regions :
         /\ call' = [op |-> "get_career_insights", career_name |-> career_name,
                     region |-> region]
         /\ ret' = get_career_insights(simulation, career_name, region)
         /\ simulation' = AfterSimulation(simulation, career_name, region)
    /\ UNCHANGED <<matcher, analyzer, comparison, personality_test, role_model_service,
                   warning_system, process>>

NextViews ==
    \/ GetCareerSimulation
    \/ GetSimulationSummary
    \/ GetStressTimeline
    \/ GetCareerInsights
    \/ Return

SpecViews == InitViews /\ [][NextViews]_vars

\* the operations that answer for one career of the simulation table
SimulationViews ==
    {"get_career_simulation", "get_simulation_summary", "get_stress_timeline",
     "get_career_insights"}

\* the career of the call is not a key of the loaded simulation table
UnknownSimulation ==
    /\ call.op \in SimulationViews
    /\ call.career_name
         \notin DOMAIN DictGet(simulation.simulations_data, "career_simulations", EmptyDict)

\* C15: for a career name that is not a key of the loaded simulation table
\* get_career_simulation returns an error object without any metric, and
\* get_simulation_summary, get_stress_timeline and get_career_insights
\* return that same object and do not raise
C15_UnknownSimulationError ==
    UnknownSimulation =>
        /\ ret.raised = None
        /\ DOMAIN ret.value = {"error"}
        /\ ret.value.error = "Simulation not available for " \o call.career_name
        /\ ret = get_career_simulation(simulation, call.career_name, call.region)

\* the insights of a career the loaded table does not hold were asked for
C15_Witness ==
    /\ UnknownSimulation
    /\ call.op = "get_career_insights"
    /\ DOMAIN DictGet(simulation.simulations_data, "career_simulations", EmptyDict) # {}
    /\ ret.value.error = "Simulation not available for Astronaut"


\* ---------------------------------------------------------------------------
\* Looking a career up by name: the reality-check route, the skills-gap route,
\* get_career_simulation and compare_careers
\* ---------------------------------------------------------------------------

\* jsonify(body), status
Response(status, body) == [status |-> status, body |-> body]

\* the characters of the codes 32 to 126 but for the grave accent, 96, which
\* no string of the model can hold
PrintableChars ==
    " !\"#$%&'()*+,-./0123456789:;<=>?@ABCDEFGHIJKLMNOPQRSTUVWXYZ[\\]^_abcdefghijklmnopqrstuvwxyz{|}~"

\* the codes of the characters that a string of the model can hold: tab, line
\* feed, form feed, carriage return and the printable characters of ASCII
CharCodes == {9, 10, 12, 13} \cup (32..126 \ {96})

\* the character of a code of CharCodes; no other code has a character here
CharOfCode(code) ==
    CASE code = 9 -> "\t"
      [] code = 10 -> "\n"
      [] code = 12 -> "\f"
      [] code = 13 -> "\r"
      [] code \in 32..95 -> SubSeq(PrintableChars, code - 31, code - 31)
      [] code \in 97..126 -> SubSeq(PrintableChars, code - 32, code - 32)

HexDigits == "0123456789abcdef"
IsHexDigit(c) == \E i \in 1..Len(HexDigits) : SubSeq(HexDigits, i, i) = StrLower(c)
HexValue(c) == (CHOOSE i \in 1..Len(HexDigits) : SubSeq(HexDigits, i, i) = StrLower(c)) - 1

\* the byte that the two hexadecimal digits after a "%" write
EscapedByte(s) == 16 * HexValue(SubSeq(s, 2, 2)) + HexValue(SubSeq(s, 3, 3))

\* s begins with "%" and two hexadecimal digits, of either case
IsEscape(s) ==
    /\ Len(s) >= 3
    /\ Head(s) = "%"
    /\ IsHexDigit(SubSeq(s, 2, 2))
    /\ IsHexDigit(SubSeq(s, 3, 3))

\* urllib.parse.unquote: every %XX becomes the character of the byte XX, and a
\* "%" that two hexadecimal digits do not follow stays.  Unquote has a value
\* for the strings whose escapes write bytes of CharCodes only: the grave
\* accent, the other control characters and what the bytes from 128 on
\* decode to are characters that no string of the model can hold, and for a
\* string with such an escape CharOfCode, and so Unquote, has no value.
RECURSIVE Unquote(_)
Unquote(s) ==
    IF s = "" THEN ""
    ELSE IF IsEscape(s)
    THEN CharOfCode(EscapedByte(s)) \o Unquote(SubSeq(s, 4, Len(s)))
    ELSE Head(s) \o Unquote(Tail(s))

\* career_reality_check.json with the keys of its object career_reality_data
\* in the order the file holds them, which is the order of .keys()
RealityFile(content, key_order) ==
    [exists |-> TRUE, content |-> content, key_order |-> key_order]

\* the first key, in the order of the file, that is equal to career_name up
\* to letter case: the loop of lines 255 to 259, which ends at its first match
FirstKeyIgnoringCase(key_order, matching) ==
    key_order[CHOOSE i \in matching : \A j \in matching : i <= j]

\* GET /api/career-reality-check/<career_name>, reading the file on each
\* request; it has a value for the paths that Unquote has a value for
get_career_reality_check(reality_file, path) ==
    LET career_name == Unquote(path)
        reality_data == reality_file.content
        table == reality_data.career_reality_data
        exact == career_name \in DOMAIN table /\ table[career_name] # EmptyDict
        matching == {i \in DOMAIN reality_file.key_order :
                        StrLower(reality_file.key_order[i]) = StrLower(career_name)}
        found(key) ==
            IF table[key] = EmptyDict
            THEN Response(404, [error |-> "Career data not found for \"" \o key \o "\"",
                                available_careers |-> reality_file.key_order])
            ELSE IF "general_insights" \notin DOMAIN reality_data
            THEN Response(500, [error |-> "'general_insights'"])
            ELSE Response(200, [career_name |-> key, reality_check |-> table[key],
                                general_insights |-> reality_data.general_insights])
    IN  IF ~reality_file.exists
        THEN Response(404, [error |-> "Career reality data not found"])
        ELSE IF "career_reality_data" \notin DOMAIN reality_data
        THEN Response(500, [error |-> "'career_reality_data'"])
        ELSE IF exact THEN found(career_name)
        ELSE IF matching # {}
        THEN found(FirstKeyIgnoringCase(reality_file.key_order, matching))
        ELSE Response(404, [error |-> "Career data not found for \"" \o career_name \o "\"",
                            available_careers |-> reality_file.key_order])

\* POST /api/skills-gap-analysis for a request body data, where careers is the
\* table the CareerMatcher of the request loads
analyze_skills_gap_route(careers, data) ==
    LET route_matcher == CareerMatcher("student", careers)
        career_name == DictGet(data, "career_name", None)
        matching == SelectSeq(route_matcher.careers_data,
                              LAMBDA career : StrLower(career.name) = StrLower(career_name))
    IN  IF career_name = None \/ career_name = ""
        THEN Response(400, [error |-> "Career name is required"])
        ELSE IF matching = <<>>
        THEN Response(404, [error |-> "Career not found"])
        ELSE Response(200, analyze_skills_gap(SkillsGapAnalyzer,
                                              DictGet(data, "user_skills", <<>>),
                                              matching[1],
                                              DictGet(data, "user_subjects", <<>>)))

\* the names a career is asked for by
LookupNames ==
    {"Software Engineer", "software engineer", "SOFTWARE ENGINEER", "Chartered Accountant",
     "Astronaut"}

\* the paths of the reality-check requests
RealityCheckPaths ==
    LookupNames \cup {"software%20engineer", "Software%20%45ngineer", "%41stronaut"}

\* a file that holds three keys equal up to letter case, the last of them
\* with an empty entry
CaseVariantsRealityFile ==
    [career_reality_data |->
        ("SOFTWARE ENGINEER" :> [reality_check |-> [stress_level |-> "High"]])
        @@ ("software engineer" :> [reality_check |-> [stress_level |-> "Low"]])
        @@ ("Software Engineer" :> EmptyDict),
     general_insights |-> [success_factors |-> <<"Persistence">>]]

LoadedRealityFile ==
    RealityFile(CareerRealityFile, <<"Software Engineer", "Chartered Accountant">>)

RealityFiles ==
    {LoadedRealityFile,
     RealityFile(CaseVariantsRealityFile,
                 <<"SOFTWARE ENGINEER", "software engineer", "Software Engineer">>),
     RealityFile([general_insights |-> EmptyDict], <<>>),
     NoFile}

\* the career tables the matcher of a skills-gap request loads
LookupTables == {careers \in CareerTables : Len(careers) <= 1}

SkillsGapRequests ==
    {[career_name |-> career_name, user_skills |-> <<"Programming">>] :
        career_name \in LookupNames \cup {""}}
    \cup {[user_skills |-> <<"Programming">>]}

InitLookup ==
    /\ matcher = NotConstructed
    /\ analyzer = NotConstructed
    /\ \E dir \in DataDirectories :
         comparison = CareerComparison(dir.careers, dir.careers_india,
                                       dir.career_reality_check)
    /\ \/ \E daily_schedule \in {schedule \in ViewSchedules : Len(schedule) = 1} :
            simulation = CareerSimulation(File(SimulationsFile(daily_schedule)))
       \/ simulation = CareerSimulation(NoFile)
    /\ personality_test = NotConstructed
    /\ role_model_service = NotConstructed
    /\ warning_system = NotConstructed
    /\ process = NotStarted
    /\ call = NoCall
    /\ ret = None

GetCareerRealityCheck ==
    /\ call = NoCall
    /\ \E reality_file \in RealityFiles, path \in RealityCheckPaths :
         /\ call' = [op |-> "get_career_reality_check", reality_file |-> reality_file,
                     career_name |-> path]
         /\ ret' = get_career_reality_check(reality_file, path)
    /\ UNCHANGED <<components, process>>

AnalyzeSkillsGapRoute ==
    /\ call = NoCall
    /\ \E careers \in LookupTables, data \in SkillsGapRequests :
         /\ call' = [op |-> "analyze_skills_gap_route", careers |-> careers, data |-> data]
         /\ ret' = analyze_skills_gap_route(careers, data)
    /\ UNCHANGED <<components, process>>

CompareNamedCareers ==
    /\ call = NoCall
    /\ \E first \in LookupNames, second \in LookupNames, region \in Regions :
         /\ call' = [op |-> "compare_careers", career_names |-> <<first, second>>,
                     region |-> region]
         /\ ret' = compare_careers(comparison, <<first, second>>, region)
    /\ UNCHANGED <<components, process>>

NextLookup ==
    \/ GetCareerRealityCheck
    \/ AnalyzeSkillsGapRoute
    \/ GetCareerSimulation
    \/ CompareNamedCareers
    \/ Return

SpecLookup == InitLookup /\ [][NextLookup]_vars

\* the key that name is equal to up to letter case, name itself if it is a key
\* or if there is no such key
KeyOfName(name, keys) ==
    IF name \in keys THEN name
    ELSE IF \E key \in keys : StrLower(key) = StrLower(name)
    THEN CHOOSE key \in keys : StrLower(key) = StrLower(name)
    ELSE name

\* the reality-check and the skills-gap lookups answer a name as they answer
\* the key it is equal to up to letter case
RouteLookupsIgnoreCase ==
    /\ (call.op = "get_career_reality_check" /\ call.reality_file = LoadedRealityFile) =>
          ret = get_career_reality_check(
                    call.reality_file,
                    KeyOfName(Unquote(call.career_name),
                              DOMAIN call.reality_file.content.career_reality_data))
    /\ (call.op = "analyze_skills_gap_route" /\ "career_name" \in DOMAIN call.data) =>
          ret = analyze_skills_gap_route(
                    call.careers,
                    [call.data EXCEPT !.career_name =
                        KeyOfName(@, {call.careers[i].name : i \in DOMAIN call.careers})])

\* get_career_simulation answers a name as it answers the key the name is
\* equal to up to letter case
SimulationLookupIgnoresCase ==
    call.op = "get_career_simulation" =>
        ret = get_career_simulation(
                  simulation,
                  KeyOfName(call.career_name,
                            DOMAIN DictGet(simulation.simulations_data, "career_simulations",
                                           EmptyDict)),
                  call.region)

\* compare_careers answers names as it answers the keys they are equal to up
\* to letter case
ComparisonLookupIgnoresCase ==
    call.op = "compare_careers" =>
        ret = compare_careers(
                  comparison,
                  [i \in DOMAIN call.career_names |->
                      KeyOfName(call.career_names[i], DOMAIN comparison.careers_data)],
                  call.region)

\* C16: a name that differs from a loaded key only in letter case is resolved
\* to that key's entry by the reality-check lookup, the skills-gap career
\* lookup, get_career_simulation and compare_careers
C16_CaseInsensitiveLookup ==
    /\ RouteLookupsIgnoreCase
    /\ SimulationLookupIgnoresCase
    /\ ComparisonLookupIgnoresCase


\* ---------------------------------------------------------------------------
\* The loaded tables across calls
\* ---------------------------------------------------------------------------

\* the upper-case letter of each lower-case letter
UpperOf ==
    [c \in {SubSeq(LowerChars, i, i) : i \in 1..Len(LowerChars)} |->
        LET i == CHOOSE k \in 1..Len(LowerChars) : SubSeq(LowerChars, k, k) = c
        IN  SubSeq(UpperChars, i, i)]

CharUpper(c) == IF c \in DOMAIN UpperOf THEN UpperOf[c] ELSE c

\* s.title(): a letter that follows a letter in lower case, any other in upper
StrTitle(s) ==
    LET RECURSIVE TitleFrom(_, _)
        TitleFrom(rest, after_letter) ==
            IF rest = "" THEN ""
            ELSE (IF after_letter THEN CharLower(Head(rest)) ELSE CharUpper(Head(rest)))
                 \o TitleFrom(Tail(rest),
                              Head(rest) \in DOMAIN UpperOf \/ Head(rest) \in DOMAIN LowerOf)
    IN  TitleFrom(s, FALSE)

\* get_visualization_data: a node for the user and one for each of the first
\* three recommendations, which must have a median_salary and a growth_rate
get_visualization_data(self, user_data) ==
    LET \* interests, skills, subjects, personality, experience_level
        arguments == <<DictGet(user_data, "interests", <<>>),
                       DictGet(user_data, "skills", <<>>),
                       DictGet(user_data, "subjects", <<>>),
                       DictGet(user_data, "personality", EmptyDict),
                       DictGet(user_data, "experience_level", None)>>
        \* the nodes and the links of the recommendations, strengths[i] being the
        \* match score of recommendations[i]
        graph(recommendations, strengths) ==
            IF \E i \in DOMAIN recommendations :
                   {"name", "median_salary", "growth_rate"} \ DOMAIN recommendations[i] # {}
            THEN Raised("KeyError")
            ELSE Returned(
                     [nodes |-> <<[id |-> "user",
                                   name |-> "You (" \o StrTitle(self.mode) \o ")",
                                   type |-> "user", size |-> 20, region |-> self.region]>>
                                \o [i \in DOMAIN recommendations |->
                                       [id |-> "career_" \o NatToStr(i - 1),
                                        name |-> recommendations[i].name,
                                        type |-> "career", size |-> 15,
                                        salary |-> recommendations[i].median_salary,
                                        growth |-> recommendations[i].growth_rate,
                                        region |-> self.region]],
                      links |-> [i \in DOMAIN recommendations |->
                                    [source |-> "user",
                                     target |-> "career_" \o NatToStr(i - 1),
                                     strength |-> strengths[i]]]])
    IN  \* the top three recommendations, and the profile they are scored with
        CHOOSE viz_data \in
            UNION { { graph(found[1],
                            [i \in DOMAIN found[1] |-> MatchScore(found[2], found[1][i])]) :
                        found \in {<<Take(get_recommendations(self, a[1], a[2], a[3], a[4],
                                                              a[5]), 3),
                                     _create_user_profile(self, a[1], a[2], a[3], a[4],
                                                          a[5])>>} } :
                    a \in {arguments} } : TRUE

\* three installations: the data files at hand and a day of one task, no data
\* file at all, and an empty career file with a day without tasks
FrameInstallations ==
    { [mode |-> "student", careers |-> _get_default_careers,
       dir |-> CHOOSE dir \in DataDirectories : dir.careers.exists,
       simulations |-> File(SimulationsFile(
           CHOOSE schedule \in ViewSchedules :
               Len(schedule) = 1 /\ schedule[1].stress_level = 3))],
      [mode |-> "professional",
       careers |-> CHOOSE careers \in LookupTables :
                       careers # <<>> /\ careers[1].name = "Teacher",
       dir |-> CHOOSE dir \in DataDirectories : ~dir.careers.exists,
       simulations |-> NoFile],
      [mode |-> "student", careers |-> <<>>,
       dir |-> CHOOSE dir \in DataDirectories : dir.careers.exists,
       simulations |-> File(SimulationsFile(<<>>))] }

InitFrame ==
    /\ \E installed \in FrameInstallations :
         /\ matcher = CareerMatcher(installed.mode, installed.careers)
         /\ comparison = CareerComparison(installed.dir.careers, installed.dir.careers_india,
                                          installed.dir.career_reality_check)
         /\ simulation = CareerSimulation(installed.simulations)
    /\ analyzer = SkillsGapAnalyzer
    /\ personality_test = NotConstructed
    /\ role_model_service = NotConstructed
    /\ warning_system = NotConstructed
    /\ process = NotStarted
    /\ call = NoCall
    /\ ret = None

GetVisualizationData ==
    /\ call = NoCall
    /\ \E a \in RecommendationInputs :
         /\ call' = [op |-> "get_visualization_data", user_data |-> a]
         /\ ret' = get_visualization_data(
                       matcher,
                       [interests |-> a.interests, skills |-> a.skills,
                        subjects |-> a.subjects, personality |-> a.personality])
    /\ UNCHANGED <<components, process>>

\* a call that ends: the state of every component stays as the call left it
NextFrame ==
    \/ GetCareerSimulation
    \/ GetSimulationSummary
    \/ GetCareerInsights
    \/ CompareNamedCareers
    \/ GetRecommendations
    \/ GetVisualizationData
    \/ AnalyzeSkillsGap
    \/ Return

SpecFrame == InitFrame /\ [][NextFrame]_vars

\* C13: no call of get_career_simulation, get_simulation_summary,
\* get_career_insights, compare_careers, get_recommendations,
\* get_visualization_data or analyze_skills_gap changes a loaded table: the
\* overrides of the region and the derived metrics are in the result only
C13_TablesUnchanged == [][components' = components]_vars

\* a simulation for india was returned with the salary of the region and the
\* derived metrics, and the table holds the entry as it was loaded
C13_Witness ==
    /\ call.op = "get_career_simulation"
    /\ call.region = "india"
    /\ ret.raised = None
    /\ "total_tasks" \in DOMAIN ret.value
    /\ ret.value.salary_range = "6-25 lakh"
    /\ simulation.simulations_data.career_simulations[call.career_name].salary_range
         = "$80,000-$150,000"
    /\ "total_tasks"
         \notin DOMAIN simulation.simulations_data.career_simulations[call.career_name]


\* ---------------------------------------------------------------------------
\* The recommendations route: every recommended career with its explanation
\* (src/app/routes.py, recommend_careers)
\* ---------------------------------------------------------------------------

\* the "regions" part of the default mode configuration
_get_default_regions ==
    [global |-> [career_file |-> "careers.json", currency |-> "USD",
                 salary_prefix |-> "$"],
     india |-> [career_file |-> "careers_india.json", currency |-> "INR",
                salary_prefix |-> RupeeSign]]

\* self.mode_config['regions'].get(self.region, {})
get_region_info(self) == DictGet(_get_default_regions, self.region, EmptyDict)

\* the role models whose career is part of career_name or holds it, up to
\* letter case, and every role model if there is none
get_role_models_for_career(self, career_name) ==
    LET matches(model) ==
            \/ StrContains(StrLower(model.career), StrLower(career_name))
            \/ StrContains(StrLower(career_name), StrLower(model.career))
        matching_models == SelectSeq(self.role_models, matches)
    IN  IF matching_models = <<>> THEN self.role_models ELSE matching_models

\* the models of every career of the list, one after the other
RECURSIVE ModelsOfCareers(_, _)
ModelsOfCareers(self, career_list) ==
    IF career_list = <<>> THEN <<>>
    ELSE get_role_models_for_career(self, Head(career_list).name)
         \o ModelsOfCareers(self, Tail(career_list))

\* the models whose name is not in seen_names and did not come before
RECURSIVE UnseenModels(_, _)
UnseenModels(models, seen_names) ==
    IF models = <<>> THEN <<>>
    ELSE IF Head(models).name \in seen_names
    THEN UnseenModels(Tail(models), seen_names)
    ELSE <<Head(models)>>
         \o UnseenModels(Tail(models), seen_names \cup {Head(models).name})

get_role_models_for_careers(self, career_list) ==
    Take(UnseenModels(ModelsOfCareers(self, career_list), {}), 3)

\* get_inspiration_quote: the set of outcomes of one call (random.choice may
\* return any of the models)
get_inspiration_quote(self, career_name) ==
    LET models == IF Truthy(career_name)
                  THEN get_role_models_for_career(self, career_name)
                  ELSE self.role_models
    IN  IF models = <<>> THEN {None}
        ELSE {[quote |-> models[i].inspiration_quote, author |-> models[i].name,
               title |-> models[i].title] : i \in DOMAIN models}

\* the career, the explanation and the skills gap of every entry of
\* 'recommendations': the explainer is handed the request's data as it came
Explained(recommendations, data) ==
    [i \in DOMAIN recommendations |->
        [career |-> recommendations[i],
         explanation |-> explain_recommendation(recommendations[i], data),
         skills_gap |-> analyze_skills_gap(SkillsGapAnalyzer,
                                           DictGet(data, "skills", <<>>),
                                           recommendations[i],
                                           DictGet(data, "subjects", <<>>))]]

\* lines 90 to 97: the tip for the first recommendation, None without one
DailyTips(service, recommendations, mode, proc) ==
    IF recommendations = <<>> THEN {Returned(None)}
    ELSE get_daily_tip(service, recommendations[1].name, None, mode, proc)

\* lines 100 to 102
Inspirations(service, recommendations) ==
    get_inspiration_quote(service,
                          IF recommendations = <<>> THEN None
                          ELSE recommendations[1].name)

\* what the route ends with once the tip and the quote are drawn: nothing
\* catches what get_daily_tip (line 93) or get_visualization_data (line 112)
\* raises
RecommendResponse(self, recommendations, explained, role_models, daily_tip, inspiration, visualization_data) ==
    IF daily_tip.raised # None THEN daily_tip
    ELSE IF visualization_data.raised # None THEN visualization_data
    ELSE Returned([recommendations |-> explained,
                   visualization_data |-> visualization_data.value,
                   role_models |-> role_models,
                   daily_tip |-> daily_tip.value,
                   inspiration |-> inspiration,
                   region_info |-> get_region_info(self),
                   mode |-> self.mode,
                   region |-> self.region])

RecommendOutcomes(self, service, data, proc, recommendations) ==
    { RecommendResponse(self, recommendations, response[1], response[2], daily_tip,
                        inspiration, response[3]) :
        daily_tip \in DailyTips(service, recommendations, self.mode, proc),
        inspiration \in Inspirations(service, recommendations),
        response \in {<<Explained(recommendations, data),
                        get_role_models_for_careers(service, recommendations),
                        get_visualization_data(self, data)>>} }

\* POST /api/recommend: the set of outcomes of one request.  self is the
\* CareerMatcher and service the RoleModelService that lines 56 and 58
\* construct for the region and the mode of the session
recommend_careers(self, service, data, proc) ==
    UNION { RecommendOutcomes(self, service, data, proc, recommendations) :
              recommendations \in
                  {get_recommendations(self, DictGet(data, "interests", <<>>),
                                       DictGet(data, "skills", <<>>),
                                       DictGet(data, "subjects", <<>>),
                                       DictGet(data, "personality", EmptyDict),
                                       DictGet(data, "experience_level", None))} }

\* the career tables of the route: at most two careers
RecommendTables == DistinctSeqsUpTo(RouteCareerPool, 2)

\* a role model of data/role_models.json
RoleModel(name, career, title, inspiration_quote) ==
    [name |-> name, career |-> career, title |-> title,
     inspiration_quote |-> inspiration_quote]

RoleModelsFiles ==
    {NoFile,
     File(<<RoleModel("Ada Lovelace", "Software Engineer", "First programmer",
                      "Imagination is the discovering faculty"),
            RoleModel("Anne Sullivan", "Teacher", "Teacher of Helen Keller",
                      "Keep on beginning and failing")>>)}

\* the tip files of the route: none, one tip for software engineers, and a
\* tip for all careers before it
RouteTipsFiles ==
    {NoFile,
     File(<<Tip(1, "skill_development", <<"Software Engineer">>)>>),
     File(<<Tip(2, "networking", <<"All careers">>),
            Tip(1, "skill_development", <<"Software Engineer">>)>>)}

\* the requests: the arguments of get_recommendations as the posted object
RecommendRequests ==
    {[interests |-> a.interests, skills |-> a.skills, subjects |-> a.subjects,
      personality |-> a.personality] : a \in RecommendationInputs}

\* the matcher and the service are those that every request constructs from
\* the data files, which no request writes
InitRecommend ==
    /\ \E mode \in Modes, careers \in RecommendTables :
         matcher = CareerMatcher(mode, careers)
    /\ analyzer = NotConstructed
    /\ comparison = NotConstructed
    /\ simulation = NotConstructed
    /\ personality_test = NotConstructed
    /\ \E role_models_file \in RoleModelsFiles, tips_file \in RouteTipsFiles :
         role_model_service = RoleModelService(matcher.region, role_models_file, tips_file)
    /\ warning_system = NotConstructed
    /\ process = NotStarted
    /\ call = NoCall
    /\ ret = None

RecommendCareers ==
    /\ call = NoCall
    /\ \E data \in RecommendRequests :
         /\ call' = [op |-> "recommend_careers", data |-> data]
         /\ ret' \in recommend_careers(matcher, role_model_service, data, process)
    /\ UNCHANGED <<components, process>>

NextRecommend == RecommendCareers \/ Return

SpecRecommend == InitRecommend /\ [][NextRecommend]_vars

\* the skill set the scorer matched the request against
ScoredSkills ==
    _create_user_profile(matcher, DictGet(call.data, "interests", <<>>),
                         DictGet(call.data, "skills", <<>>),
                         DictGet(call.data, "subjects", <<>>),
                         DictGet(call.data, "personality", EmptyDict), None).skills

\* C21: for every recommended career the explanation's skill_gaps are exactly
\* the required skills of the career that are absent from the user's
\* subject-augmented skill set, the set the scorer matched against: no skill
\* derived from a subject of the user is listed as a gap
C21_GapsAreAbsentSkills ==
    (call.op = "recommend_careers" /\ ret.raised = None) =>
        \A i \in DOMAIN ret.value.recommendations :
            ret.value.recommendations[i].explanation.skill_gaps
              = Range(ret.value.recommendations[i].career.required_skills) \ ScoredSkills


\* ---------------------------------------------------------------------------
\* SkillsGapAnalyzer: the time to learn the missing skills
\* ---------------------------------------------------------------------------

ComplexSkillKeywords == <<"machine_learning", "programming", "leadership">>
MediumSkillKeywords == <<"data_analysis", "design", "project_management">>

\* any(keyword in skill for keyword in keywords)
ContainsAny(keywords, skill) ==
    \E i \in DOMAIN keywords : StrContains(keywords[i], skill)

\* the months of one skill
SkillMonths(skill) ==
    IF ContainsAny(ComplexSkillKeywords, skill) THEN 6
    ELSE IF ContainsAny(MediumSkillKeywords, skill) THEN 3
    ELSE 2

\* total_months after the loop
RECURSIVE TotalMonths(_)
TotalMonths(missing_skills) ==
    IF missing_skills = <<>> THEN 0
    ELSE SkillMonths(Head(missing_skills)) + TotalMonths(Tail(missing_skills))

\* adjusted_total = total_months // 2, without the max(..., 3)
_estimate_learning_time_without_floor(missing_skills) ==
    IF missing_skills = <<>>
    THEN [total |-> "0 months", breakdown |-> "No skills to learn"]
    ELSE [total |-> NatToStr(TotalMonths(missing_skills) \div 2) \o " months",
          breakdown |-> [i \in DOMAIN missing_skills |->
                            missing_skills[i] \o ": "
                              \o NatToStr(SkillMonths(missing_skills[i])) \o " months"],
          note |-> "Estimates assume part-time learning with some skills learned in parallel"]

_estimate_learning_time(missing_skills) ==
    IF missing_skills = <<>>
    THEN [total |-> "0 months", breakdown |-> "No skills to learn"]
    ELSE [total |-> NatToStr(Max(TotalMonths(missing_skills) \div 2, 3)) \o " months",
          breakdown |-> [i \in DOMAIN missing_skills |->
                            missing_skills[i] \o ": "
                              \o NatToStr(SkillMonths(missing_skills[i])) \o " months"],
          note |-> "Estimates assume part-time learning with some skills learned in parallel"]

\* the longest list of missing skills
MaxMissingSkills == 3

\* normalized skill names: complex, medium and simple ones, a name that holds
\* a keyword inside a longer word and one that holds a keyword of both kinds
MissingSkillNames ==
    {"machine_learning", "python_programming", "design_leadership", "data_analysis",
     "ui_design", "project_management", "sql"}

InitLearning ==
    /\ matcher = NotConstructed
    /\ analyzer = SkillsGapAnalyzer
    /\ comparison = NotConstructed
    /\ simulation = NotConstructed
    /\ personality_test = NotConstructed
    /\ role_model_service = NotConstructed
    /\ warning_system = NotConstructed
    /\ process = NotStarted
    /\ call = NoCall
    /\ ret = None

EstimateLearningTime ==
    /\ call = NoCall
    /\ \E missing_skills \in SeqsUpTo(MissingSkillNames, MaxMissingSkills) :
         /\ call' = [op |-> "_estimate_learning_time", missing_skills |-> missing_skills]
         /\ ret' = _estimate_learning_time(missing_skills)
    /\ UNCHANGED <<components, process>>

NextLearning == EstimateLearningTime \/ Return

SpecLearning == InitLearning /\ [][NextLearning]_vars

\* the months the claim gives each skill name: 6 for a complex keyword, else 3
\* for a medium keyword, else 2
ClaimedMonths ==
    [machine_learning |-> 6, python_programming |-> 6, design_leadership |-> 6,
     data_analysis |-> 3, ui_design |-> 3, project_management |-> 3, sql |-> 2]

\* max(floor(sum / 2), 3) of the claimed months of the call's skills
ClaimedTotal == Max(SumOver(call.missing_skills, ClaimedMonths) \div 2, 3)

\* the breakdown lists every skill with its claimed months
ClaimedBreakdown ==
    [i \in DOMAIN call.missing_skills |->
        call.missing_skills[i] \o ": "
          \o NatToStr(ClaimedMonths[call.missing_skills[i]]) \o " months"]

\* as claimed: the total is max(floor(sum / 2), 3) months for every list of
\* missing skills, so never below 3 months
C22_AsClaimed ==
    call.op = "_estimate_learning_time" =>
        ret.total = NatToStr(ClaimedTotal) \o " months"

\* C22: _estimate_learning_time gives each missing skill 6 months if it holds
\* a complex keyword, else 3 if it holds a medium keyword, else 2, and for a
\* non-empty list reports max(floor(sum / 2), 3) months, never below 3; for
\* the empty list it reports "0 months" and no breakdown list
C22_LearningTime ==
    call.op = "_estimate_learning_time" =>
        IF call.missing_skills = <<>>
        THEN ret = [total |-> "0 months", breakdown |-> "No skills to learn"]
        ELSE /\ ret.total = NatToStr(ClaimedTotal) \o " months"
             /\ ret.breakdown = ClaimedBreakdown
             /\ ClaimedTotal >= 3

\* three skills of 6, 3 and 2 months are reported as 5 months
C22_Witness ==
    /\ call.op = "_estimate_learning_time"
    /\ call.missing_skills = <<"design_leadership", "ui_design", "sql">>
    /\ ret.total = "5 months"


\* ---------------------------------------------------------------------------
\* CareerComparison: the rankings of the compared careers
\* ---------------------------------------------------------------------------

\* the most careers of a ranked list
MaxRankedCareers == 3

\* rows of compare_careers with the fields the rankings read: every two of
\* them tie on some metrics and differ on others
RankedRow(name, salary_numeric, stress_score, work_life_score, growth, skills_complexity) ==
    [name |-> name, salary_numeric |-> salary_numeric, stress_score |-> stress_score,
     work_life_score |-> work_life_score,
     growth_numeric |-> _extract_growth_rate(growth),
     skills_complexity |-> skills_complexity]

RankedRows ==
    { RankedRow("Software Engineer", 110000, 4, 4, "22%", 3),
      RankedRow("Teacher", 60000, 3, 4, "7.5%", 1),
      RankedRow("Chartered Accountant", 850000, 4, 2, "7.5%", 2),
      RankedRow("Nurse", 60000, 5, 3, "N/A", 2),
      RankedRow("Data Scientist", 110000, 3, 3, "36%", 3) }

InitRankings ==
    /\ matcher = NotConstructed
    /\ analyzer = NotConstructed
    /\ \E dir \in DataDirectories :
         comparison = CareerComparison(dir.careers, dir.careers_india,
                                       dir.career_reality_check)
    /\ simulation = NotConstructed
    /\ personality_test = NotConstructed
    /\ role_model_service = NotConstructed
    /\ warning_system = NotConstructed
    /\ process = NotStarted
    /\ call = NoCall
    /\ ret = None

CalculateRankings ==
    /\ call = NoCall
    /\ \E careers \in SeqsUpTo(RankedRows, MaxRankedCareers) :
         /\ call' = [op |-> "_calculate_rankings", careers |-> careers]
         /\ ret' = _calculate_rankings(careers)
    /\ UNCHANGED <<components, process>>

NextRankings == CalculateRankings \/ Return

SpecRankings == InitRankings /\ [][NextRankings]_vars

\* the orders of the positions 1..n
Orders(n) == {order \in [1..n -> 1..n] : \A p, q \in 1..n : p # q => order[p] # order[q]}

\* ranking lists the careers by key, the better key first (the higher one when
\* descending, the lower one when ascending), careers of equal key in the
\* order of the input
RankedBy(ranking, careers, key, descending) ==
    \E order \in Orders(Len(careers)) :
        /\ ranking = [p \in 1..Len(careers) |-> careers[order[p]].name]
        /\ \A p, q \in 1..Len(careers) :
              p < q =>
                LET first == careers[order[p]]
                    second == careers[order[q]]
                IN  /\ ~(IF descending THEN KeyLess(first, second, key)
                         ELSE KeyLess(second, first, key))
                    /\ (~KeyLess(first, second, key) /\ ~KeyLess(second, first, key))
                         => order[p] < order[q]

\* C23: _calculate_rankings orders the compared careers by salary_numeric
\* descending, stress_score ascending, work_life_score descending,
\* growth_numeric descending and skills_complexity ascending, and careers that
\* tie on a metric keep their input order in the ranking of that metric
C23_RankingsOrdered ==
    call.op = "_calculate_rankings" =>
        /\ DOMAIN ret = RankingMetrics
        /\ RankedBy(ret.salary, call.careers, "salary_numeric", TRUE)
        /\ RankedBy(ret.stress_level, call.careers, "stress_score", FALSE)
        /\ RankedBy(ret.work_life_balance, call.careers, "work_life_score", TRUE)
        /\ RankedBy(ret.growth_rate, call.careers, "growth_numeric", TRUE)
        /\ RankedBy(ret.skills_complexity, call.careers, "skills_complexity", FALSE)

\* three careers were ranked: the two of equal salary stay in input order
\* behind the third, and the stress ranking turns the input around
C23_Witness ==
    /\ call.op = "_calculate_rankings"
    /\ Names(call.careers) = <<"Nurse", "Teacher", "Chartered Accountant">>
    /\ ret.salary = <<"Chartered Accountant", "Nurse", "Teacher">>
    /\ ret.stress_level = <<"Teacher", "Chartered Accountant", "Nurse">>
    /\ ret.growth_rate = <<"Teacher", "Chartered Accountant", "Nurse">>


\* ---------------------------------------------------------------------------
\* CareerComparison: the detailed comparison of two careers
\* ---------------------------------------------------------------------------

\* career_a's name if the test holds, else career_b's
WinnerIf(a_wins, career_a, career_b) == IF a_wins THEN career_a.name ELSE career_b.name

\* the detailed comparison made of the comparison of the two names
DetailedComparison(comparison_data, region) ==
    IF "error" \in DOMAIN comparison_data THEN comparison_data
    ELSE IF Len(comparison_data.careers) # 2
    THEN [error |-> "Both careers must be available for comparison"]
    ELSE [career_a |-> comparison_data.careers[1],
          career_b |-> comparison_data.careers[2],
          winner_analysis |->
              [salary |->
                   WinnerIf(KeyLess(comparison_data.careers[2], comparison_data.careers[1],
                                    "salary_numeric"),
                            comparison_data.careers[1], comparison_data.careers[2]),
               work_life_balance |->
                   WinnerIf(KeyLess(comparison_data.careers[2], comparison_data.careers[1],
                                    "work_life_score"),
                            comparison_data.careers[1], comparison_data.careers[2]),
               low_stress |->
                   WinnerIf(KeyLess(comparison_data.careers[1], comparison_data.careers[2],
                                    "stress_score"),
                            comparison_data.careers[1], comparison_data.careers[2]),
               growth_potential |->
                   WinnerIf(KeyLess(comparison_data.careers[2], comparison_data.careers[1],
                                    "growth_numeric"),
                            comparison_data.careers[1], comparison_data.careers[2]),
               easier_entry |->
                   WinnerIf(KeyLess(comparison_data.careers[1], comparison_data.careers[2],
                                    "skills_complexity"),
                            comparison_data.careers[1], comparison_data.careers[2])],
          region |-> region]

get_detailed_comparison(self, career1, career2, region) ==
    DetailedComparison(compare_careers(self, <<career1, career2>>, region), region)

InitDetailed ==
    /\ matcher = NotConstructed
    /\ analyzer = NotConstructed
    /\ \E dir \in DataDirectories :
         comparison = CareerComparison(dir.careers, dir.careers_india,
                                       dir.career_reality_check)
    /\ simulation = NotConstructed
    /\ personality_test = NotConstructed
    /\ role_model_service = NotConstructed
    /\ warning_system = NotConstructed
    /\ process = NotStarted
    /\ call = NoCall
    /\ ret = None

GetDetailedComparison ==
    /\ call = NoCall
    /\ \E career1 \in CareerNames, career2 \in CareerNames, region \in Regions :
         /\ call' = [op |-> "get_detailed_comparison", career1 |-> career1,
                     career2 |-> career2, region |-> region]
         /\ ret' = get_detailed_comparison(comparison, career1, career2, region)
    /\ UNCHANGED <<components, process>>

\* compare_careers on two names
CompareTwoCareers ==
    /\ call = NoCall
    /\ \E career1 \in CareerNames, career2 \in CareerNames, region \in Regions :
         /\ call' = [op |-> "compare_careers", career_names |-> <<career1, career2>>,
                     region |-> region]
         /\ ret' = compare_careers(comparison, <<career1, career2>>, region)
    /\ UNCHANGED <<components, process>>

NextDetailed == GetDetailedComparison \/ CompareTwoCareers \/ Return

SpecDetailed == InitDetailed /\ [][NextDetailed]_vars

\* the rankings of compare_careers on the pair of the call
PairRankings ==
    compare_careers(comparison, <<call.career1, call.career2>>, call.region).rankings

\* C24: for two known careers each winner of winner_analysis is the career
\* ranked first in the ranking of compare_careers on the same pair, of salary,
\* work_life_balance, stress_level, growth_rate and skills_complexity, also
\* when the two careers tie on the metric
C24_WinnersLeadRankings ==
    (/\ call.op = "get_detailed_comparison"
     /\ {call.career1, call.career2} \subseteq DOMAIN comparison.careers_data) =>
        /\ ret.winner_analysis.salary = PairRankings.salary[1]
        /\ ret.winner_analysis.work_life_balance = PairRankings.work_life_balance[1]
        /\ ret.winner_analysis.low_stress = PairRankings.stress_level[1]
        /\ ret.winner_analysis.growth_potential = PairRankings.growth_rate[1]
        /\ ret.winner_analysis.easier_entry = PairRankings.skills_complexity[1]


\* ---------------------------------------------------------------------------
\* CareerSimulation: the work-life balance score of a schedule
\* ---------------------------------------------------------------------------

\* the most tasks of a day whose balance is scored
MaxBalanceTasks == 6

\* the days of up to MaxBalanceTasks tasks: some high-stress tasks (of stress
\* 4 or of stress 5), then some tasks of stress 1, then tasks of stress 3
BalanceSchedules ==
    { [i \in 1..n |->
          LET kind == TaskOfStress[IF i <= high THEN high_level
                                   ELSE IF i <= high + low THEN 1 ELSE 3]
          IN  [time |-> TimeOfTask(i), task |-> kind.task, duration |-> kind.duration,
               stress_level |-> kind.stress_level,
               description |-> "About " \o kind.task]] :
      n \in 0..MaxBalanceTasks, high \in 0..MaxBalanceTasks, low \in 0..MaxBalanceTasks,
      high_level \in {4, 5} }

InitBalance ==
    /\ matcher = NotConstructed
    /\ analyzer = NotConstructed
    /\ comparison = NotConstructed
    /\ simulation = CareerSimulation(NoFile)
    /\ personality_test = NotConstructed
    /\ role_model_service = NotConstructed
    /\ warning_system = NotConstructed
    /\ process = NotStarted
    /\ call = NoCall
    /\ ret = None

CalculateWorkLifeBalanceScore ==
    /\ call = NoCall
    /\ \E schedule \in BalanceSchedules :
         /\ call' = [op |-> "_calculate_work_life_balance_score", schedule |-> schedule]
         /\ ret' = _calculate_work_life_balance_score(schedule)
    /\ UNCHANGED <<components, process>>

NextBalance == CalculateWorkLifeBalanceScore \/ Return

SpecBalance == InitBalance /\ [][NextBalance]_vars

\* the tasks of the call's schedule with a stress level of the set
TasksOfStress(levels) ==
    Cardinality({i \in DOMAIN call.schedule : call.schedule[i].stress_level \in levels})

\* C25: for every daily schedule, an empty one included,
\* _calculate_work_life_balance_score never fails and returns an integer in
\* 1..5: 2 when the fraction of tasks of stress >= 4 exceeds 0.4, 3 when it
\* exceeds 0.2, else 4 when the fraction of tasks of stress <= 1 exceeds 0.2,
\* else 3
C25_BalanceScore ==
    call.op = "_calculate_work_life_balance_score" =>
        /\ ret.raised = None
        /\ ret.value \in 1..5
        /\ ret.value =
             (IF 10 * TasksOfStress(4..5) > 4 * Len(call.schedule) THEN 2
              ELSE IF 10 * TasksOfStress(4..5) > 2 * Len(call.schedule) THEN 3
              ELSE IF 10 * TasksOfStress(0..1) > 2 * Len(call.schedule) THEN 4
              ELSE 3)

\* the score of every schedule that holds a task is the claimed one
NonEmptyBalanceScore ==
    (call.op = "_calculate_work_life_balance_score" /\ call.schedule # <<>>) =>
        C25_BalanceScore


\* ---------------------------------------------------------------------------
\* The morning, afternoon and evening of get_career_insights
\* ---------------------------------------------------------------------------

\* the insights of a career of the loaded simulation table were asked for
KnownInsights ==
    /\ call.op = "get_career_insights"
    /\ call.career_name
         \in DOMAIN DictGet(simulation.simulations_data, "career_simulations", EmptyDict)

\* the daily schedule whose insights were asked for
InsightsSchedule ==
    simulation.simulations_data.career_simulations[call.career_name].daily_schedule

\* the mean stress of the tasks first..last of a schedule, over the tasks
\* that the schedule holds there; 0 when it holds none
BucketMean(schedule, first, last) ==
    IF Len(schedule) < first THEN FZero
    ELSE FDivNat(StressSum(schedule, first, last), Min(last, Len(schedule)) - first + 1)

\* the daily patterns are those of the three means
PatternsOfMeans(patterns, morning, afternoon, evening) ==
    /\ patterns.morning_stress_avg_tenths = FRoundDigits(morning, 1)
    /\ patterns.afternoon_stress_avg_tenths = FRoundDigits(afternoon, 1)
    /\ patterns.evening_stress_avg_tenths = FRoundDigits(evening, 1)
    /\ patterns.most_stressful_period =
          (IF FLe(afternoon, morning) /\ FLe(evening, morning) THEN "Morning"
           ELSE IF FLe(evening, afternoon) THEN "Afternoon"
           ELSE "Evening")

\* C26: for every schedule of a known career, of any length, get_career_insights
\* reports as morning, afternoon and evening average the mean stress of the
\* first 3 tasks, of tasks 4 to 6 and of the remaining tasks, each mean taken
\* over the tasks the bucket holds, and as most stressful period the bucket of
\* the highest mean, Morning before Afternoon before Evening on a tie
C26_BucketMeans ==
    KnownInsights =>
        /\ ret.raised = None
        /\ \E means \in {<<BucketMean(InsightsSchedule, 1, 3),
                           BucketMean(InsightsSchedule, 4, 6),
                           BucketMean(InsightsSchedule, 7, Len(InsightsSchedule))>>} :
              PatternsOfMeans(ret.value.daily_patterns, means[1], means[2], means[3])

\* the same for the days of more than 6 tasks
LongDayBucketMeans ==
    (KnownInsights /\ Len(InsightsSchedule) > 6) => C26_BucketMeans

\* the same for the days of 1 to 6 tasks
ShortDayBucketMeans ==
    (KnownInsights /\ Len(InsightsSchedule) \in 1..6) => C26_BucketMeans


\* ---------------------------------------------------------------------------
\* The scores of analyze_student_risk
\* ---------------------------------------------------------------------------

\* 0 <= score <= 1
UnitScore(score) == FLe(FZero, score) /\ FLe(score, FOne)

\* the weighted score and its level are those of the three dimension scores
WeightedRisk(weighted, overall_risk_score, overall_risk_level) ==
    /\ overall_risk_score = weighted
    /\ UnitScore(weighted)
    /\ overall_risk_level =
          (IF FLe(weighted, PyFloat(<<3, 10>>)) THEN "low_risk"
           ELSE IF FLt(PyFloat(<<3, 10>>), weighted) /\ FLe(weighted, PyFloat(<<6, 10>>))
           THEN "moderate_risk"
           ELSE "high_risk")
    /\ FLt(PyFloat(<<6, 10>>), weighted) <=> overall_risk_level = "high_risk"

\* the scores of a risk assessment are as claimed
RiskScores(assessment, academic, interest, stress) ==
    /\ UnitScore(academic)
    /\ UnitScore(interest)
    /\ UnitScore(stress)
    /\ WeightedRisk(FAdd(FAdd(FMul(PyFloat(<<4, 10>>), academic),
                              FMul(PyFloat(<<3, 10>>), interest)),
                         FMul(PyFloat(<<3, 10>>), stress)),
                    assessment.overall_risk_score, assessment.overall_risk_level)

\* the scores of the assessment that was returned
ReturnedRiskScores ==
    /\ ret.raised = None
    /\ RiskScores(ret.value, ret.value.risk_breakdown.academic_consistency.score,
                  ret.value.risk_breakdown.interest_stability.score,
                  ret.value.risk_breakdown.stress_tolerance.score)

\* C27: for every student record analyze_student_risk reports three dimension
\* scores in [0,1], an overall_risk_score of 0.4*academic + 0.3*interest +
\* 0.3*stress, which is in [0,1], and the overall_risk_level low_risk for a
\* score <= 0.3, moderate_risk for a score > 0.3 and <= 0.6, high_risk above 0.6
C27_RiskScores ==
    call.op = "analyze_student_risk" => ReturnedRiskScores

\* the scores of every assessment that was returned are as claimed
ReturnedAssessmentScores ==
    (call.op = "analyze_student_risk" /\ ret.raised = None) => ReturnedRiskScores

\* the grades of the student record of the call are two or more zeros
ZeroGrades ==
    LET grades == DictGet(DictGet(call.student_data, "academic_history", EmptyDict),
                          "grades", <<>>)
    IN  Len(grades) >= 2 /\ \A i \in DOMAIN grades : grades[i] = 0

\* an analysis raises exactly when the criteria file was absent (KeyError) or
\* the grades are all zero (ZeroDivisionError of the grade trend)
AnalysisRaises ==
    call.op = "analyze_student_risk" =>
        ret = (IF warning_system.criteria_data = EmptyDict THEN Raised("KeyError")
               ELSE IF ZeroGrades THEN Raised("ZeroDivisionError")
               ELSE Returned(ret.value))


\* ---------------------------------------------------------------------------
\* _calculate_success_probability over the risk scores of [0,1]
\* ---------------------------------------------------------------------------

\* the risk scores are the multiples of 1/RiskScoreSteps in [0,1]
RiskScoreSteps == 100

RiskScoreInputs == {PyFloat(<<n, RiskScoreSteps>>) : n \in 0..RiskScoreSteps}

InitProbability ==
    /\ matcher = NotConstructed
    /\ analyzer = NotConstructed
    /\ comparison = NotConstructed
    /\ simulation = NotConstructed
    /\ personality_test = NotConstructed
    /\ role_model_service = NotConstructed
    /\ \E criteria_file \in {NoFile, File(FailureWarningCriteriaFile)} :
         warning_system = FailureWarningSystem(criteria_file)
    /\ process = NotStarted
    /\ call = NoCall
    /\ ret = None

CalculateSuccessProbability ==
    /\ call = NoCall
    /\ \E score \in RiskScoreInputs :
         /\ call' = [op |-> "_calculate_success_probability",
                     overall_risk |-> [score |-> score]]
         /\ ret' = Returned(_calculate_success_probability([score |-> score]))
    /\ UNCHANGED <<components, process>>

NextProbability == CalculateSuccessProbability \/ Return

SpecProbability == InitProbability /\ [][NextProbability]_vars

\* the outlooks from the worst to the best
OutlookRank(outlook) ==
    CASE outlook = "Challenging" -> 1
      [] outlook = "Fair" -> 2
      [] outlook = "Good" -> 3
      [] outlook = "Excellent" -> 4

\* the probability and the outlook of a risk score are as claimed, and no
\* worse than those of a higher risk score
ProbabilityOfRisk(success, claimed, higher) ==
    /\ success.probability = claimed
    /\ FLe(PyFloat(<<1, 10>>), success.probability)
    /\ FLe(success.probability, FOne)
    /\ success.outlook =
          (IF FLt(PyFloat(<<8, 10>>), claimed) THEN "Excellent"
           ELSE IF FLt(PyFloat(<<6, 10>>), claimed) THEN "Good"
           ELSE IF FLt(PyFloat(<<4, 10>>), claimed) THEN "Fair"
           ELSE "Challenging")
    /\ \A other \in higher :
          /\ FLe(other.probability, success.probability)
          /\ OutlookRank(other.outlook) <= OutlookRank(success.outlook)

\* C28: _calculate_success_probability returns probability = max(0.1, 1 - risk
\* score), which is in [0.1, 1] for every risk score of [0,1] and never rises
\* with the risk score; the outlook is Excellent above 0.8, Good above 0.6,
\* Fair above 0.4 and Challenging otherwise, and never better for a higher
\* risk score
C28_SuccessProbability ==
    call.op = "_calculate_success_probability" =>
        /\ ret.raised = None
        /\ ProbabilityOfRisk(
              ret.value,
              FMax(PyFloat(<<1, 10>>), FSub(FOne, call.overall_risk.score)),
              {_calculate_success_probability([score |-> score]) :
                  score \in {higher \in RiskScoreInputs :
                                FLe(call.overall_risk.score, higher)}})

\* a risk score above 0.9, whose probability is the floor of 0.1, and the
\* risk score 0.2, whose probability 0.8 is not above 0.8
C28_Witness ==
    /\ call.op = "_calculate_success_probability"
    /\ \/ /\ FLt(PyFloat(<<9, 10>>), call.overall_risk.score)
          /\ ret.value.probability = PyFloat(<<1, 10>>)
          /\ ret.value.outlook = "Challenging"
       \/ /\ call.overall_risk.score = PyFloat(<<2, 10>>)
          /\ ret.value.outlook = "Good"


\* ---------------------------------------------------------------------------
\* The alternative paths of analyze_student_risk
\* ---------------------------------------------------------------------------

\* the names of the alternative paths of each overall risk level
PathsOfLevel(overall_risk_level) ==
    CASE overall_risk_level = "high_risk" ->
            <<"Gap Year with Skill Development", "Community College Start",
              "Trade/Vocational Training">>
      [] overall_risk_level = "moderate_risk" ->
            <<"Structured Support Program", "Part-time Study Option">>
      [] overall_risk_level = "low_risk" -> <<>>

\* the names of the alternative paths of an assessment
PathNames(assessment) ==
    [i \in DOMAIN assessment.alternative_paths |-> assessment.alternative_paths[i].path]

\* C29: the alternative_paths of an assessment that analyze_student_risk
\* returns are those of its overall_risk_level, so that two assessments of one
\* level have the same paths: the three lower-pressure paths for high_risk,
\* the two supportive paths for moderate_risk and none for low_risk
C29_PathsByRiskLevel ==
    (call.op = "analyze_student_risk" /\ ret.raised = None) =>
        PathNames(ret.value) = PathsOfLevel(ret.value.overall_risk_level)

\* the same for the assessments of low_risk and of high_risk
LowAndHighRiskPaths ==
    (call.op = "analyze_student_risk" /\ ret.raised = None
       /\ ret.value.overall_risk_level # "moderate_risk") =>
        C29_PathsByRiskLevel

\* the paths of a moderate_risk assessment are the two supportive paths for
\* an overall score above 0.4 and none otherwise
ModerateRiskPaths ==
    (call.op = "analyze_student_risk" /\ ret.raised = None
       /\ ret.value.overall_risk_level = "moderate_risk") =>
        PathNames(ret.value) =
            (IF FLt(PyFloat(<<4, 10>>), ret.value.overall_risk_score)
             THEN PathsOfLevel("moderate_risk") ELSE <<>>)


\* ---------------------------------------------------------------------------
\* The answers calculate_personality does not read
\* ---------------------------------------------------------------------------

\* how many answers a sheet holds after the ninth
MaxLaterAnswers == 4

\* the first nine answers: those of src/demo.py, and the neutral answers with
\* at most one of them changed
EarlyAnswers ==
    {SubSeq(DemoAnswers, 1, 9)} \cup
    { [i \in 1..9 |-> IF i = changed THEN to ELSE NeutralAnswer] :
        changed \in 0..9, to \in AnswerScale }

\* the sheets of nine to 9 + MaxLaterAnswers answers
LongAnswerSheets ==
    { early \o later : early \in EarlyAnswers,
                       later \in SeqsUpTo({1, 5}, MaxLaterAnswers) }

InitAnswers ==
    /\ matcher = NotConstructed
    /\ analyzer = NotConstructed
    /\ comparison = NotConstructed
    /\ simulation = NotConstructed
    /\ personality_test = PersonalityTest
    /\ role_model_service = NotConstructed
    /\ warning_system = NotConstructed
    /\ process = NotStarted
    /\ call = NoCall
    /\ ret = None

CalculateLongPersonality ==
    /\ call = NoCall
    /\ \E answers \in LongAnswerSheets :
         /\ call' = [op |-> "calculate_personality", answers |-> answers]
         /\ ret' = calculate_personality(personality_test, answers)
    /\ UNCHANGED <<components, process>>

NextAnswers == CalculateLongPersonality \/ Return

SpecAnswers == InitAnswers /\ [][NextAnswers]_vars

\* the sheets that agree with the sheet of the call on the answers 1 to 9
SheetsOfSameEarlyAnswers ==
    {sheet \in LongAnswerSheets : SubSeq(sheet, 1, 9) = SubSeq(call.answers, 1, 9)}

\* C30: the answers to the questions 10, 11 and 12 and the answers beyond the
\* 12th have no effect: every answer list that agrees with the list of the
\* call on the positions 1 to 9 yields the same type code and the same eight
\* dimension scores
C30_LaterAnswersIgnored ==
    call.op = "calculate_personality" =>
        /\ ret.raised = None
        /\ Cardinality(DOMAIN ret.value.scores) = 8
        /\ \A sheet \in SheetsOfSameEarlyAnswers :
              LET other == calculate_personality(personality_test, sheet)
              IN  /\ other.raised = None
                  /\ other.value.type = ret.value.type
                  /\ other.value.scores = ret.value.scores

\* a sheet of more than twelve answers whose answers 10 to 13 are not neutral
\* was scored like its first nine answers
C30_Witness ==
    /\ call.op = "calculate_personality"
    /\ Len(call.answers) > QuestionCount
    /\ \A i \in 10..13 : call.answers[i] = 5
    /\ ret = calculate_personality(personality_test, SubSeq(call.answers, 1, 9))
    /\ ret.value.scores.intuition + ret.value.scores.sensing = 12

=============================================================================
